---- MODULE Spec2Model ----
(***************************************************************************)
(* GraphRender: the transform from a laid-out ELK graph document to an SVG *)
(* tree (src/src/melk/elk_graph_svg.py, class ElkGraphSvg) and the CSS     *)
(* class normalisation of src/src/graphrender/profile.py.                  *)
(*                                                                         *)
(* Python dictionaries are records whose DOMAIN is the set of keys that    *)
(* are present; dict.get(k, d) is Get(d, k, def).  Python strings that the *)
(* code inspects character by character (type strings, class attributes)  *)
(* are sequences of one-character strings; identifiers that are only used  *)
(* as dictionary keys are TLA+ strings.  An Optional value is None (the    *)
(* empty sequence) or Some(v) (a one-element sequence).                    *)
(***************************************************************************)
EXTENDS Integers, Sequences, FiniteSets, TLC

VARIABLES
    graph,            \* self.graph: the input document
    padding,          \* self.padding
    embed_theme,      \* self.embed_theme
    theme_css,        \* self.theme_css (None or Some(text))
    nodes,            \* self.nodes: flat node records, absolute coordinates
    edges,            \* self.edges: {"edge": raw, "offset": (x, y)} entries
    labels,           \* self.labels: flat label records
    port_lookup,      \* self.port_lookup: port id -> absolute port record
    node_lookup,      \* self.node_lookup: node id -> absolute node record
    _icon_cache,      \* self._icon_cache: icon name -> None or Some(text)
    _icon_geom_cache, \* self._icon_geom_cache: icon name -> None or Some(geometry)
    _icon_def_ids,    \* self._icon_def_ids: icon name -> definition id
    _defs_cache,      \* self._defs_cache: None or Some(defs element)
    contacts,         \* icon name -> number of calls of urlopen for it
    disk,             \* the icon cache directory: None, or Some(icon name -> file text)
    arg,              \* the argument of a function called on its own
    called,           \* the last call made: <<name>> or <<name, argument>>
    returned,         \* the value that call returned (None if it raised)
    raised            \* the exception that call let escape, "" if it returned

vars == <<graph, padding, embed_theme, theme_css, nodes, edges, labels,
          port_lookup, node_lookup, _icon_cache, _icon_geom_cache,
          _icon_def_ids, _defs_cache, contacts, disk, arg, called, returned,
          raised>>

config_vars == <<graph, padding, embed_theme, theme_css>>
collection_vars == <<nodes, edges, labels, port_lookup, node_lookup>>
icon_vars == <<_icon_cache, _icon_geom_cache, _icon_def_ids, _defs_cache, contacts,
               disk>>

---------------------------------------------------------------------------
(* Bounds of the model.                                                    *)

\* Deepest nesting of nodes in the generated documents.
MaxDepth == 3

\* Calls of the icon backend per icon name after which no further lookup of
\* that name is started.
MaxContacts == 2

\* Longest list of labels handed to the Label Router on its own.
MaxLabels == 2

\* Largest offset of a port inside its node in the documents that place one
\* port on one node.
MaxPortOffset == 4

\* Longest text handed to css_class_token on its own.
MaxTokenLen == 3

\* Largest absolute value of a thickness handed to _edge_thickness on its own.
MaxThickness == 3

---------------------------------------------------------------------------
(* Python value helpers.                                                   *)

None == <<>>
Some(v) == <<v>>

\* dict.get(k, def)
Get(d, k, def) == IF k \in DOMAIN d THEN d[k] ELSE def

\* d[k] = v on a dict held as a function
Put(d, k, v) == [j \in (DOMAIN d) \cup {k} |-> IF j = k THEN v ELSE d[j]]

\* The member of a one-element set.  Only({e(x) : x \in {v}}) is e(v) with
\* v computed once, however often e mentions x.
Only(S) == CHOOSE x \in S : TRUE

Abs(n) == IF n < 0 THEN -n ELSE n

\* n / 2; the generated documents declare even widths and heights where the
\* code halves them, so the division is exact.
Half(n) == n \div 2

RECURSIVE SeqMax(_, _, _)
\* max((f(n) for n in seq), default=default), seq given as its values
SeqMax(vals, i, best) ==
    IF i > Len(vals) THEN best
    ELSE SeqMax(vals, i + 1, IF vals[i] > best THEN vals[i] ELSE best)

---------------------------------------------------------------------------
(* Geometry Resolver: ElkGraphSvg._collect_graph and its helpers.          *)

\* ElkGraphSvg._option_value: the keys are tried in order, and for each key
\* layoutOptions is consulted before properties.
RECURSIVE _option_value_from(_, _, _, _)
_option_value_from(opts, props, keys, i) ==
    IF i > Len(keys) THEN None
    ELSE IF keys[i] \in DOMAIN opts THEN Some(opts[keys[i]])
    ELSE IF keys[i] \in DOMAIN props THEN Some(props[keys[i]])
    ELSE _option_value_from(opts, props, keys, i + 1)

_option_value(item, keys) ==
    _option_value_from(Get(item, "layoutOptions", <<>>),
                       Get(item, "properties", <<>>), keys, 1)

\* float(value): an option value is [num |-> n] (a number, or text that
\* parses to n) or [text |-> t] (text float() rejects with ValueError).
ToFloat(value) == IF "num" \in DOMAIN value THEN Some(value.num) ELSE None

FontSizeKeys == <<"org.eclipse.elk.font.size", "elk.font.size", "font.size">>

\* ElkGraphSvg._font_size
_font_size(item) ==
    LET value == _option_value(item, FontSizeKeys)
    IN  IF value = None THEN None ELSE ToFloat(value[1])

\* min(distances, key=distances.get): the first key, in insertion order,
\* whose distance is minimal.
RECURSIVE FirstMin(_, _, _, _)
FirstMin(keys, dist, i, best) ==
    IF i > Len(keys) THEN keys[best]
    ELSE FirstMin(keys, dist, i + 1, IF dist[i] < dist[best] THEN i ELSE best)

\* A _port_side whose ties go to the last side of the order
_port_side_last_wins(node, port, port_abs_x, port_abs_y) ==
    LET cx2 == 2 * port_abs_x + Get(port, "width", 0)
        cy2 == 2 * port_abs_y + Get(port, "height", 0)
        distances == << Abs(cy2 - 2 * (Get(node, "y", 0) + Get(node, "height", 0))),
                        Abs(cy2 - 2 * Get(node, "y", 0)),
                        Abs(cx2 - 2 * (Get(node, "x", 0) + Get(node, "width", 0))),
                        Abs(cx2 - 2 * Get(node, "x", 0)) >>
    IN  FirstMin(<<"SOUTH", "NORTH", "EAST", "WEST">>, distances, 2, 1)

\* ElkGraphSvg._port_side.  The distances are kept doubled, which leaves
\* their order unchanged and keeps the port centre an integer.
_port_side(node, port, port_abs_x, port_abs_y) ==
    LET node_x == Get(node, "x", 0)
        node_y == Get(node, "y", 0)
        node_w == Get(node, "width", 0)
        node_h == Get(node, "height", 0)
        cx2 == 2 * port_abs_x + Get(port, "width", 0)
        cy2 == 2 * port_abs_y + Get(port, "height", 0)
        distances == << Abs(cx2 - 2 * node_x),
                        Abs(cx2 - 2 * (node_x + node_w)),
                        Abs(cy2 - 2 * node_y),
                        Abs(cy2 - 2 * (node_y + node_h)) >>
    IN  FirstMin(<<"WEST", "EAST", "NORTH", "SOUTH">>, distances, 2, 1)

\* The exception record["id"] raises when the record has no "id" key
KeyError == "KeyError"

\* The collections _collect_graph appends to, and the exception that ended
\* the traversal ("" while it is running)
EmptyCollections ==
    [nodes |-> <<>>, edges |-> <<>>, labels |-> <<>>,
     port_lookup |-> <<>>, node_lookup |-> <<>>, raised |-> ""]

\* The record appended to self.labels for a raw label.
LabelRecord(kind, owner, label, x, y) ==
    [owner_kind |-> kind, owner |-> owner,
     id |-> IF "id" \in DOMAIN label THEN Some(label.id) ELSE None,
     text |-> Get(label, "text", ""),
     x |-> x, y |-> y,
     width |-> Get(label, "width", 0), height |-> Get(label, "height", 0),
     font_size |-> _font_size(label)]

\* for label in node.get("labels", []): ... (relative to the node)
RECURSIVE CollectNodeLabels(_, _, _, _, _, _)
CollectNodeLabels(raw, i, node_id, abs_x, abs_y, acc) ==
    IF i > Len(raw) THEN acc
    ELSE CollectNodeLabels(raw, i + 1, node_id, abs_x, abs_y,
            [acc EXCEPT !.labels = Append(@,
                LabelRecord("node", node_id, raw[i],
                            abs_x + Get(raw[i], "x", 0),
                            abs_y + Get(raw[i], "y", 0)))])

\* Port labels where a missing coordinate is replaced on its own and the
\* supplied one is kept
RECURSIVE CollectPortLabelsPerCoordinate(_, _, _, _)
CollectPortLabelsPerCoordinate(raw, i, port_abs, acc) ==
    IF i > Len(raw) THEN acc
    ELSE LET label == raw[i]
             lx == IF "x" \notin DOMAIN label THEN port_abs.x + Half(port_abs.width)
                   ELSE port_abs.x + label.x
             ly == IF "y" \notin DOMAIN label THEN port_abs.y + Half(port_abs.height)
                   ELSE port_abs.y + label.y
         IN  CollectPortLabelsPerCoordinate(raw, i + 1, port_abs,
                [acc EXCEPT !.labels = Append(@,
                    LabelRecord("port", port_abs.id, label, lx, ly))])

\* for label in port.get("labels", []) or []: ... (relative to the port, or
\* the port centre when x or y is missing)
RECURSIVE CollectPortLabels(_, _, _, _)
CollectPortLabels(raw, i, port_abs, acc) ==
    IF i > Len(raw) THEN acc
    ELSE LET label == raw[i]
             missing == ("x" \notin DOMAIN label) \/ ("y" \notin DOMAIN label)
             lx == IF missing THEN port_abs.x + Half(port_abs.width)
                   ELSE port_abs.x + label.x
             ly == IF missing THEN port_abs.y + Half(port_abs.height)
                   ELSE port_abs.y + label.y
         IN  CollectPortLabels(raw, i + 1, port_abs,
                [acc EXCEPT !.labels = Append(@,
                    LabelRecord("port", port_abs.id, label, lx, ly))])

\* for port in node.get("ports", []): ... (relative to the node)
RECURSIVE CollectPorts(_, _, _, _, _)
CollectPorts(raw, i, node_id, record, acc) ==
    Only({
        IF i > Len(raw) \/ a.raised # "" THEN a
        ELSE IF "id" \notin DOMAIN raw[i] THEN [a EXCEPT !.raised = KeyError]
        ELSE LET port == raw[i]
                 port_abs_x == record.x + Get(port, "x", 0)
                 port_abs_y == record.y + Get(port, "y", 0)
                 port_abs == [id |-> port.id, owner |-> node_id,
                              x |-> port_abs_x, y |-> port_abs_y,
                              width |-> Get(port, "width", 0),
                              height |-> Get(port, "height", 0),
                              raw |-> port,
                              side |-> _port_side(record, port, port_abs_x, port_abs_y)]
                 acc1 == [a EXCEPT !.port_lookup = Put(@, port_abs.id, port_abs)]
             IN  CollectPorts(raw, i + 1, node_id, record,
                    CollectPortLabels(Get(port, "labels", <<>>), 1, port_abs, acc1))
        : a \in {acc} })

\* for label in edge.get("labels", []): ... (relative to the subgraph);
\* edge["id"] is evaluated once per label
RECURSIVE CollectEdgeLabels(_, _, _, _, _)
CollectEdgeLabels(raw, i, edge, base_offset, acc) ==
    IF i > Len(raw) THEN acc
    ELSE IF "id" \notin DOMAIN edge THEN [acc EXCEPT !.raised = KeyError]
    ELSE CollectEdgeLabels(raw, i + 1, edge, base_offset,
            [acc EXCEPT !.labels = Append(@,
                LabelRecord("edge", edge.id, raw[i],
                            base_offset[1] + Get(raw[i], "x", 0),
                            base_offset[2] + Get(raw[i], "y", 0)))])

\* for edge in graph.get("edges", []): ...
RECURSIVE CollectEdges(_, _, _, _)
CollectEdges(raw, i, base_offset, acc) ==
    Only({
        IF i > Len(raw) \/ a.raised # "" THEN a
        ELSE LET edge == raw[i]
                 acc1 == [a EXCEPT !.edges =
                            Append(@, [edge |-> edge, offset |-> base_offset])]
             IN  CollectEdges(raw, i + 1, base_offset,
                    CollectEdgeLabels(Get(edge, "labels", <<>>), 1, edge,
                                      base_offset, acc1))
        : a \in {acc} })

\* A resolver that hands a child its own absolute position as the offset
ChildOffsetAbsolute(base_offset, abs_x, abs_y) == <<abs_x, abs_y>>

\* The offset _collect_graph passes to the recursive call for a child node:
\* the base offset of the graph the child was found in.
ChildOffset(base_offset, abs_x, abs_y) == base_offset

RECURSIVE _collect_graph(_, _, _)
RECURSIVE CollectChildren(_, _, _, _)
RECURSIVE CollectChildrenAfterDescent(_, _, _, _)

\* A children loop that descends into a node before it records the node
CollectChildrenAfterDescent(children, i, base_offset, acc) ==
    Only({
        IF i > Len(children) \/ a.raised # "" THEN a
        ELSE IF "id" \notin DOMAIN children[i] THEN [a EXCEPT !.raised = KeyError]
        ELSE LET node == children[i]
                 abs_x == base_offset[1] + Get(node, "x", 0)
                 abs_y == base_offset[2] + Get(node, "y", 0)
                 record == [id |-> node.id, x |-> abs_x, y |-> abs_y,
                            width |-> Get(node, "width", 0),
                            height |-> Get(node, "height", 0),
                            raw |-> node]
             IN  Only({
                    CollectChildrenAfterDescent(children, i + 1, base_offset,
                        CollectPorts(Get(node, "ports", <<>>), 1, node.id, record,
                            CollectNodeLabels(Get(node, "labels", <<>>), 1, node.id,
                                abs_x, abs_y,
                                [below EXCEPT !.nodes = Append(@, record),
                                              !.node_lookup = Put(@, record.id, record)])))
                    : below \in {_collect_graph(node,
                                     ChildOffset(base_offset, abs_x, abs_y), a)} })
        : a \in {acc} })

\* for node in graph.get("children", []): ...
CollectChildren(children, i, base_offset, acc) ==
    Only({
        IF i > Len(children) \/ a.raised # "" THEN a
        ELSE IF "id" \notin DOMAIN children[i] THEN [a EXCEPT !.raised = KeyError]
        ELSE LET node == children[i]
                 abs_x == base_offset[1] + Get(node, "x", 0)
                 abs_y == base_offset[2] + Get(node, "y", 0)
                 record == [id |-> node.id, x |-> abs_x, y |-> abs_y,
                            width |-> Get(node, "width", 0),
                            height |-> Get(node, "height", 0),
                            raw |-> node]
                 acc1 == [a EXCEPT !.nodes = Append(@, record),
                                   !.node_lookup = Put(@, record.id, record)]
                 acc2 == CollectNodeLabels(Get(node, "labels", <<>>), 1, node.id,
                                           abs_x, abs_y, acc1)
                 acc3 == CollectPorts(Get(node, "ports", <<>>), 1, node.id,
                                      record, acc2)
                 acc4 == _collect_graph(node, ChildOffset(base_offset, abs_x, abs_y), acc3)
             IN  CollectChildren(children, i + 1, base_offset, acc4)
        : a \in {acc} })

\* ElkGraphSvg._collect_graph(graph, offset), threading the collections.
_collect_graph(g, offset, acc) ==
    LET base_x == offset[1] + Get(g, "x", 0)
        base_y == offset[2] + Get(g, "y", 0)
        base_offset == <<base_x, base_y>>
        acc1 == CollectChildren(Get(g, "children", <<>>), 1, base_offset, acc)
    IN  IF acc.raised # "" THEN acc
        ELSE CollectEdges(Get(g, "edges", <<>>), 1, base_offset, acc1)

---------------------------------------------------------------------------
(* Text helpers: a text the code inspects is a sequence of characters.     *)

UpperLetters == <<"A", "B", "C", "D", "E", "F", "G", "H", "I", "J", "K", "L", "M",
                  "N", "O", "P", "Q", "R", "S", "T", "U", "V", "W", "X", "Y", "Z">>
LowerLetters == <<"a", "b", "c", "d", "e", "f", "g", "h", "i", "j", "k", "l", "m",
                  "n", "o", "p", "q", "r", "s", "t", "u", "v", "w", "x", "y", "z">>
Digits == {"0", "1", "2", "3", "4", "5", "6", "7", "8", "9"}
Whitespace == {" ", "\t"}

IsUpper(c) == \E i \in DOMAIN UpperLetters : UpperLetters[i] = c
IsLower(c) == \E i \in DOMAIN LowerLetters : LowerLetters[i] = c

\* str.lower() and str.upper(), one character at a time
LowerChar(c) ==
    IF IsUpper(c) THEN LowerLetters[CHOOSE i \in DOMAIN UpperLetters : UpperLetters[i] = c]
    ELSE c
UpperChar(c) ==
    IF IsLower(c) THEN UpperLetters[CHOOSE i \in DOMAIN LowerLetters : LowerLetters[i] = c]
    ELSE c
Lower(s) == [i \in DOMAIN s |-> LowerChar(s[i])]
Upper(s) == [i \in DOMAIN s |-> UpperChar(s[i])]

\* str.lstrip(chars), str.rstrip(chars), str.strip(chars)
RECURSIVE LStrip(_, _)
LStrip(s, chars) ==
    IF s # <<>> /\ Head(s) \in chars THEN LStrip(Tail(s), chars) ELSE s
RECURSIVE RStrip(_, _)
RStrip(s, chars) ==
    IF s # <<>> /\ s[Len(s)] \in chars THEN RStrip(SubSeq(s, 1, Len(s) - 1), chars)
    ELSE s
Strip(s, chars) == RStrip(LStrip(s, chars), chars)

\* " ".join(parts)
RECURSIVE Join(_, _)
Join(parts, sep) ==
    IF parts = <<>> THEN <<>>
    ELSE IF Len(parts) = 1 THEN parts[1]
    ELSE parts[1] \o sep \o Join(Tail(parts), sep)

---------------------------------------------------------------------------
(* Style/Type Classifier: graphrender.profile.css_class_token.             *)

\* The characters the pattern [a-zA-Z0-9_-] accepts.
IsClassChar(c) == IsLower(c) \/ IsUpper(c) \/ c \in Digits \/ c \in {"_", "-"}

\* re.sub(r"[^a-zA-Z0-9_-]+", "-", s): every maximal run of characters
\* outside the class becomes one hyphen.
RECURSIVE SubRuns(_, _, _)
SubRuns(s, i, in_run) ==
    IF i > Len(s) THEN <<>>
    ELSE IF IsClassChar(s[i]) THEN <<s[i]>> \o SubRuns(s, i + 1, FALSE)
    ELSE IF in_run THEN SubRuns(s, i + 1, TRUE)
    ELSE <<"-">> \o SubRuns(s, i + 1, TRUE)

TypeUnknown == <<"t", "y", "p", "e", "-", "u", "n", "k", "n", "o", "w", "n">>
TypePrefix == <<"t", "y", "p", "e", "-">>

\* A classifier that capitalises the prefix of a token starting with a digit
DigitPrefixCapitalized(token) == <<"T", "y", "p", "e", "-">> \o token

\* The prefix css_class_token puts before a token that starts with a digit.
DigitPrefix(token) == TypePrefix \o token

\* css_class_token(value), value a str
css_class_token(value) ==
    LET token0 == SubRuns(Lower(Strip(value, Whitespace)), 1, FALSE)
        token == Strip(token0, {"-", "_"})
    IN  IF token = <<>> THEN TypeUnknown
        ELSE IF token[1] \in Digits THEN DigitPrefix(token)
        ELSE token

---------------------------------------------------------------------------
(* Icon Resolver: _fetch_icon_svg, _icon_def_id, _icon_geometry.           *)
(*                                                                         *)
(* The memo tables of one renderer travel together as a record ic with the *)
(* fields icon_cache, icon_geom_cache, icon_def_ids and contacts; contacts *)
(* counts, per icon name, the calls of urlopen (the icon backend).         *)
(* ic.raised names the exception that is propagating, "" when none is.     *)
(* A response of the backend is [ok |-> TRUE, data |-> text], or           *)
(* [ok |-> FALSE, caught |-> c]: urlopen or read raised, c telling whether *)
(* the exception is of a class the handler of _fetch_icon_svg names        *)
(* (HTTPError, URLError, TimeoutError, ValueError) or of another class     *)
(* (such as ConnectionResetError or http.client.IncompleteRead).           *)
(* An SVG text is [empty |-> TRUE] or [empty |-> FALSE, xml |-> well-      *)
(* formed?, attrs |-> attributes of the root element, inner |-> children]. *)

\* An exception of a class the handler of _fetch_icon_svg does not name
Uncaught == "ConnectionResetError"

\* What _fetch_icon_svg leaves in the memo table after a failed fetch.
MemoFailure(cache, icon_name) == Put(cache, icon_name, None)

\* What _fetch_icon_svg leaves in the memo table after a successful fetch.
MemoSuccess(cache, icon_name, data) == Put(cache, icon_name, Some(data))

\* _fetch_icon_svg that memoizes a fetched text but hands back nothing
_fetch_icon_svg_unreturned(ic, icon_name, resp) ==
    IF icon_name \in DOMAIN ic.icon_cache
    THEN [ic |-> ic, value |-> ic.icon_cache[icon_name]]
    ELSE LET asked == [ic EXCEPT !.contacts =
                         Put(@, icon_name, Get(@, icon_name, 0) + 1)]
         IN  IF resp.ok
             THEN [ic |-> [asked EXCEPT !.icon_cache =
                              MemoSuccess(@, icon_name, resp.data)],
                   value |-> None]
             ELSE IF resp.caught
             THEN [ic |-> [asked EXCEPT !.icon_cache = MemoFailure(@, icon_name)],
                   value |-> None]
             ELSE [ic |-> [asked EXCEPT !.raised = Uncaught], value |-> None]

\* ElkGraphSvg._fetch_icon_svg; resp is the backend's answer should it be asked.
_fetch_icon_svg(ic, icon_name, resp) ==
    IF icon_name \in DOMAIN ic.icon_cache
    THEN [ic |-> ic, value |-> ic.icon_cache[icon_name]]
    ELSE LET asked == [ic EXCEPT !.contacts =
                         Put(@, icon_name, Get(@, icon_name, 0) + 1)]
         IN  IF resp.ok
             THEN [ic |-> [asked EXCEPT !.icon_cache =
                              MemoSuccess(@, icon_name, resp.data)],
                   value |-> Some(resp.data)]
             ELSE IF resp.caught
             THEN [ic |-> [asked EXCEPT !.icon_cache = MemoFailure(@, icon_name)],
                   value |-> None]
             ELSE [ic |-> [asked EXCEPT !.raised = Uncaught], value |-> None]

\* re.sub(r"[^a-zA-Z0-9_-]", "-", icon_name)
SubEach(s) == [i \in DOMAIN s |-> IF IsClassChar(s[i]) THEN s[i] ELSE "-"]

IconWord == <<"i", "c", "o", "n">>

\* hashlib.sha1(icon_name.encode("utf-8")).hexdigest()[:8], kept symbolic:
\* the digest prefix of a name is a text only that name produces.
Sha1Prefix(icon_name) == <<"#">> \o icon_name

\* The values of the dict self._icon_def_ids
DefIdValues(ids) == {ids[k] : k \in DOMAIN ids}

\* _icon_def_id that does not look up the id it gave the name before
_icon_def_id_forgetful(ic, icon_name) ==
    LET safe0 == Strip(SubEach(icon_name), {"-", "_"})
        safe == IF safe0 = <<>> THEN IconWord ELSE safe0
        candidate0 == IconWord \o <<"-">> \o safe
        candidate == IF candidate0 \in DefIdValues(ic.icon_def_ids)
                     THEN candidate0 \o <<"-">> \o Sha1Prefix(icon_name)
                     ELSE candidate0
    IN  [ic |-> [ic EXCEPT !.icon_def_ids = Put(@, icon_name, candidate)],
         id |-> candidate]

\* ElkGraphSvg._icon_def_id
_icon_def_id(ic, icon_name) ==
    LET existing == Get(ic.icon_def_ids, icon_name, <<>>)
        safe0 == Strip(SubEach(icon_name), {"-", "_"})
        safe == IF safe0 = <<>> THEN IconWord ELSE safe0
        candidate0 == IconWord \o <<"-">> \o safe
        candidate == IF candidate0 \in DefIdValues(ic.icon_def_ids)
                     THEN candidate0 \o <<"-">> \o Sha1Prefix(icon_name)
                     ELSE candidate0
    IN  IF existing # <<>> THEN [ic |-> ic, id |-> existing]
        ELSE [ic |-> [ic EXCEPT !.icon_def_ids = Put(@, icon_name, candidate)],
              id |-> candidate]

\* float(parts[2]), float(parts[3]) of the viewBox, None when the attribute
\* is empty or absent, has not four parts, or a part does not parse.
ViewBoxSize(attrs) ==
    LET parts == Get(attrs, "viewBox", <<>>)
    IN  IF Len(parts) = 4 /\ ToFloat(parts[3]) # None /\ ToFloat(parts[4]) # None
        THEN Some(<<ToFloat(parts[3])[1], ToFloat(parts[4])[1]>>)
        ELSE None

\* float((root.get("width") or "0").replace("px", "")) and the same of
\* height, None when either raises ValueError.
AttrSize(attrs) ==
    LET w == ToFloat(Get(attrs, "width", [num |-> 0]))
        h == ToFloat(Get(attrs, "height", [num |-> 0]))
    IN  IF w # None /\ h # None THEN Some(<<w[1], h[1]>>) ELSE None

\* The (inner, width, height) _icon_geometry derives from a fetched text,
\* None when the text is unusable.
GeometryOf(svg_text) ==
    IF svg_text = None \/ svg_text[1].empty THEN None
    ELSE IF ~svg_text[1].xml THEN None
    ELSE LET attrs == svg_text[1].attrs
             vb == ViewBoxSize(attrs)
             size == IF vb # None THEN vb ELSE AttrSize(attrs)
         IN  IF size = None THEN None
             ELSE IF size[1][1] <= 0 \/ size[1][2] <= 0 THEN None
             ELSE Some(<<svg_text[1].inner, size[1][1], size[1][2]>>)

\* ElkGraphSvg._icon_geometry
_icon_geometry(ic, icon_name, resp) ==
    IF icon_name \in DOMAIN ic.icon_geom_cache
    THEN [ic |-> ic, value |-> ic.icon_geom_cache[icon_name]]
    ELSE Only({
            IF fetched.ic.raised # "" THEN [ic |-> fetched.ic, value |-> None]
            ELSE Only({
                    [ic |-> [fetched.ic EXCEPT !.icon_geom_cache =
                                 Put(@, icon_name, geom)],
                     value |-> geom]
                    : geom \in {GeometryOf(fetched.value)} })
            : fetched \in {_fetch_icon_svg(ic, icon_name, resp)} })

---------------------------------------------------------------------------
(* Label Router: _partition_labels, and the text attributes of a label.    *)

\* dict.get(k) of a key that may be missing: None or Some(value)
GetOpt(d, k) == IF k \in DOMAIN d THEN Some(d[k]) ELSE None

\* `owner or ""` for an Optional owner id
OwnerOrEmpty(owner) == IF owner = None THEN "" ELSE owner[1]

\* A router that replaces the list of a key instead of appending to it
AppendToReplacing(map, key, lbl) == Put(map, key, <<lbl>>)

\* map.setdefault(key, []).append(lbl)
AppendTo(map, key, lbl) == Put(map, key, Append(Get(map, key, <<>>), lbl))

\* The set edge_owner_ids of _partition_labels
EdgeOwnerIds(edge_entries) ==
    {edge_entries[i].edge.id :
        i \in {j \in DOMAIN edge_entries : "id" \in DOMAIN edge_entries[j].edge}}

\* A router that looks the owner up among the ports before the edges
InferredBucketPortFirst(owner, edge_ids, port_ids, node_ids) ==
    IF owner # None /\ owner[1] \in port_ids THEN "port"
    ELSE IF owner # None /\ owner[1] \in edge_ids THEN "edge"
    ELSE IF owner # None /\ owner[1] \in node_ids THEN "node"
    ELSE "edge"

\* The bucket _partition_labels infers for a label that carries no owner
\* kind: edge ids first, then port ids, then node ids, else the edge bucket.
InferredBucket(owner, edge_ids, port_ids, node_ids) ==
    IF owner # None /\ owner[1] \in edge_ids THEN "edge"
    ELSE IF owner # None /\ owner[1] \in port_ids THEN "port"
    ELSE IF owner # None /\ owner[1] \in node_ids THEN "node"
    ELSE "edge"

\* A router that honours the owner kind only when the owner id is unknown
BucketOfKnownIdFirst(lbl, edge_ids, port_ids, node_ids) ==
    LET owner == GetOpt(lbl, "owner")
        owner_kind == GetOpt(lbl, "owner_kind")
    IN  IF owner # None /\ owner[1] \in edge_ids \cup port_ids \cup node_ids
        THEN InferredBucket(owner, edge_ids, port_ids, node_ids)
        ELSE IF owner_kind \in {Some("node"), Some("port"), Some("edge")}
        THEN owner_kind[1]
        ELSE "edge"

\* The bucket one label is filed under.
BucketOf(lbl, edge_ids, port_ids, node_ids) ==
    LET owner_kind == GetOpt(lbl, "owner_kind")
    IN  IF owner_kind \in {Some("node"), Some("port"), Some("edge")}
        THEN owner_kind[1]
        ELSE InferredBucket(GetOpt(lbl, "owner"), edge_ids, port_ids, node_ids)

EmptyLabelMaps == [node |-> <<>>, port |-> <<>>, edge |-> <<>>]

\* for lbl in self.labels: ... of _partition_labels
RECURSIVE PartitionFrom(_, _, _, _, _, _)
PartitionFrom(lbls, i, edge_ids, port_ids, node_ids, maps) ==
    IF i > Len(lbls) THEN maps
    ELSE LET lbl == lbls[i]
             bucket == BucketOf(lbl, edge_ids, port_ids, node_ids)
             key == OwnerOrEmpty(GetOpt(lbl, "owner"))
         IN  PartitionFrom(lbls, i + 1, edge_ids, port_ids, node_ids,
                [maps EXCEPT ![bucket] = AppendTo(@, key, lbl)])

\* ElkGraphSvg._partition_labels over the renderer's collections
_partition_labels(lbls, edge_entries, ports, nodes_by_id) ==
    PartitionFrom(lbls, 1, EdgeOwnerIds(edge_entries), DOMAIN ports,
                  DOMAIN nodes_by_id, EmptyLabelMaps)

\* An anchor chosen by the owner alone, whatever the label is rendered as
_label_text_anchor_by_owner(ports, owner, owner_kind) ==
    IF owner # None /\ owner[1] # "" /\ owner[1] \in DOMAIN ports
    THEN LET side == ports[owner[1]].side
         IN  IF side = "WEST" THEN "end"
             ELSE IF side = "EAST" THEN "start"
             ELSE "middle"
    ELSE "middle"

\* ElkGraphSvg._label_text_anchor; owner and owner_kind are Optional
_label_text_anchor(ports, owner, owner_kind) ==
    LET known == owner # None /\ owner[1] # "" /\ owner[1] \in DOMAIN ports
        kind == IF owner_kind = None /\ known THEN Some("port") ELSE owner_kind
    IN  IF kind = Some("port") /\ known
        THEN LET side == ports[owner[1]].side
             IN  IF side = "WEST" THEN "end"
                 ELSE IF side = "EAST" THEN "start"
                 ELSE "middle"
        ELSE "middle"

\* A baseline chosen by the top of the label instead of its centre
LabelBaselineByTop(ports, lbl, owner_kind) ==
    LET owner == GetOpt(lbl, "owner")
        known == owner # None /\ owner[1] # "" /\ owner[1] \in DOMAIN ports
        kind == IF owner_kind = None /\ known THEN Some("port") ELSE owner_kind
    IN  IF kind = Some("port") /\ known
        THEN LET port == ports[owner[1]]
                 port_center_y2 == 2 * port.y + Get(port, "height", 0)
             IN  IF 2 * lbl.y < port_center_y2 THEN "text-before-edge"
                 ELSE IF 2 * lbl.y > port_center_y2 THEN "text-after-edge"
                 ELSE "middle"
        ELSE "middle"

\* The dominant-baseline _label_to_text chooses; the comparison of the
\* label's centre with the port's centre is made on doubled values.
LabelBaseline(ports, lbl, owner_kind) ==
    LET owner == GetOpt(lbl, "owner")
        known == owner # None /\ owner[1] # "" /\ owner[1] \in DOMAIN ports
        kind == IF owner_kind = None /\ known THEN Some("port") ELSE owner_kind
    IN  IF kind = Some("port") /\ known
        THEN LET port == ports[owner[1]]
                 y2 == 2 * lbl.y + Get(lbl, "height", 0)
                 port_center_y2 == 2 * port.y + Get(port, "height", 0)
             IN  IF y2 < port_center_y2 THEN "text-before-edge"
                 ELSE IF y2 > port_center_y2 THEN "text-after-edge"
                 ELSE "middle"
        ELSE "middle"

\* font_size=12 of ElkGraphSvg.__init__
DefaultFontSize == 12

\* ElkGraphSvg._label_to_text
_label_to_text(ports, lbl, owner_kind) ==
    LET fs == Get(lbl, "font_size", None)
    IN  [tag |-> "text",
         text |-> Get(lbl, "text", ""),
         x |-> lbl.x + Half(Get(lbl, "width", 0)),
         y |-> lbl.y + Half(Get(lbl, "height", 0)),
         font_size |-> IF fs = None \/ fs[1] = 0 THEN DefaultFontSize ELSE fs[1],
         text_anchor |-> _label_text_anchor(ports, GetOpt(lbl, "owner"), owner_kind),
         dominant_baseline |-> LabelBaseline(ports, lbl, owner_kind)]

\* A background rectangle for every label of positive width
_label_background_rect_by_width(lbl) ==
    IF Get(lbl, "width", 0) <= 0 THEN None
    ELSE Some([tag |-> "rect", class |-> "background",
               x |-> Get(lbl, "x", 0), y |-> Get(lbl, "y", 0),
               width |-> Get(lbl, "width", 0), height |-> Get(lbl, "height", 0)])

\* ElkGraphSvg._label_background_rect: None unless width and height are positive
_label_background_rect(lbl) ==
    IF Get(lbl, "width", 0) <= 0 \/ Get(lbl, "height", 0) <= 0 THEN None
    ELSE Some([tag |-> "rect", class |-> "background",
               x |-> Get(lbl, "x", 0), y |-> Get(lbl, "y", 0),
               width |-> Get(lbl, "width", 0), height |-> Get(lbl, "height", 0)])

---------------------------------------------------------------------------
(* Rendering Tree Builder: edges.                                          *)
(* An SVG element is a record with a tag; an attribute the code leaves     *)
(* unset is None.                                                          *)

EdgeTypeKeys == <<"org.eclipse.elk.edge.type", "elk.edge.type">>
EdgeThicknessKeys == <<"org.eclipse.elk.edge.thickness", "elk.edge.thickness",
                       "edge.thickness", "stroke.width">>

T_NONE == <<"N", "O", "N", "E">>
T_UNDIRECTED == <<"U", "N", "D", "I", "R", "E", "C", "T", "E", "D">>
T_DIRECTED == <<"D", "I", "R", "E", "C", "T", "E", "D">>
T_ASSOCIATION == <<"A", "S", "S", "O", "C", "I", "A", "T", "I", "O", "N">>
T_DEPENDENCY == <<"D", "E", "P", "E", "N", "D", "E", "N", "C", "Y">>
T_GENERALIZATION == <<"G", "E", "N", "E", "R", "A", "L", "I", "Z", "A", "T", "I", "O", "N">>

\* The marker and dash policy _edge_rendering gives an upper-cased type.
RenderingOf(edge_type) ==
    LET default == [marker_start |-> None, marker_end |-> Some("url(#arrow)"),
                    stroke_dasharray |-> None]
    IN  IF edge_type \in {T_NONE, T_UNDIRECTED}
        THEN [default EXCEPT !.marker_end = None]
        ELSE IF edge_type = T_DIRECTED
        THEN [default EXCEPT !.marker_end = Some("url(#arrow)")]
        ELSE IF edge_type = T_ASSOCIATION
        THEN [default EXCEPT !.marker_end = Some("url(#arrow-open)")]
        ELSE IF edge_type = T_DEPENDENCY
        THEN [default EXCEPT !.marker_end = Some("url(#arrow-open)"),
                             !.stroke_dasharray = Some("6 3")]
        ELSE IF edge_type = T_GENERALIZATION
        THEN [default EXCEPT !.marker_end = Some("url(#triangle-hollow)")]
        ELSE default

\* The type _edge_rendering resolves: the option if it is set and not
\* empty, else the edge's own "type"; "" when neither is set.
ResolvedEdgeType(edge) ==
    LET opt == _option_value(edge, EdgeTypeKeys)
    IN  IF opt # None /\ opt[1] # <<>> THEN opt[1] ELSE Get(edge, "type", <<>>)

\* A mapping that compares the resolved type as it is written
_edge_rendering_as_written(edge) == RenderingOf(ResolvedEdgeType(edge))

\* ElkGraphSvg._edge_rendering
_edge_rendering(edge) == RenderingOf(Upper(ResolvedEdgeType(edge)))

\* ElkGraphSvg._edge_thickness
_edge_thickness(edge) ==
    LET value == _option_value(edge, EdgeThicknessKeys)
    IN  IF value = None THEN None ELSE ToFloat(value[1])

\* ElkGraphSvg._edge_type
_edge_type(edge) == GetOpt(edge, "type")

\* ElkGraphSvg._port_center; port_id is Optional
_port_center(ports, port_id) ==
    IF port_id = None \/ port_id[1] \notin DOMAIN ports THEN None
    ELSE LET port == ports[port_id[1]]
         IN  Some(<<port.x + Half(Get(port, "width", 0)),
                    port.y + Half(Get(port, "height", 0))>>)

\* ElkGraphSvg._apply_offset
_apply_offset(point, offset) ==
    <<Get(point, "x", 0) + offset[1], Get(point, "y", 0) + offset[2]>>

\* A lookup of the last id of the list
LastPort(edge, key) ==
    LET ids == Get(edge, key, <<>>)
    IN  IF ids = <<>> \/ ids[Len(ids)] = "" THEN None ELSE Some(ids[Len(ids)])

\* (edge.get(key) or [None])[0], then `... if port else None`: the first id,
\* None when the list is absent or empty or the id is empty
FirstPort(edge, key) ==
    LET ids == Get(edge, key, <<>>)
    IN  IF ids = <<>> \/ ids[1] = "" THEN None ELSE Some(ids[1])

\* section.get(key) when that dict is not empty, else None
PointOf(section, key) ==
    IF key \in DOMAIN section /\ DOMAIN section[key] # {} THEN Some(section[key])
    ELSE None

\* [_apply_offset(bend, offset) for bend in section.get("bendPoints", []) or []]
BendPoints(section, offset) ==
    LET bends == Get(section, "bendPoints", <<>>)
    IN  [i \in DOMAIN bends |-> _apply_offset(bends[i], offset)]

\* _section_points that moves a port centre by the offset as it moves a
\* declared point
_section_points_moving_ports(ports, edge, section, offset) ==
    LET start == PointOf(section, "startPoint")
        start_pos == _port_center(ports, FirstPort(edge, "sources"))
        end == PointOf(section, "endPoint")
        end_pos == _port_center(ports, FirstPort(edge, "targets"))
        first == IF start # None THEN <<_apply_offset(start[1], offset)>>
                 ELSE IF start_pos # None
                 THEN <<<<start_pos[1][1] + offset[1], start_pos[1][2] + offset[2]>>>>
                 ELSE <<>>
        last == IF end # None THEN <<_apply_offset(end[1], offset)>>
                ELSE IF end_pos # None
                THEN <<<<end_pos[1][1] + offset[1], end_pos[1][2] + offset[2]>>>>
                ELSE <<>>
    IN  first \o BendPoints(section, offset) \o last

\* ElkGraphSvg._section_points
_section_points(ports, edge, section, offset) ==
    LET start == PointOf(section, "startPoint")
        start_pos == _port_center(ports, FirstPort(edge, "sources"))
        end == PointOf(section, "endPoint")
        end_pos == _port_center(ports, FirstPort(edge, "targets"))
        first == IF start # None THEN <<_apply_offset(start[1], offset)>>
                 ELSE IF start_pos # None THEN <<start_pos[1]>> ELSE <<>>
        last == IF end # None THEN <<_apply_offset(end[1], offset)>>
                ELSE IF end_pos # None THEN <<end_pos[1]>> ELSE <<>>
    IN  first \o BendPoints(section, offset) \o last

\* _fallback_section that is content with one resolved end
_fallback_section_either(ports, edge, offset) ==
    LET start_center == _port_center(ports, FirstPort(edge, "sources"))
        end_center == _port_center(ports, FirstPort(edge, "targets"))
    IN  IF start_center = None /\ end_center = None THEN None
        ELSE Some((IF start_center = None THEN <<>>
                   ELSE [startPoint |-> [x |-> start_center[1][1] - offset[1],
                                         y |-> start_center[1][2] - offset[2]]])
                  @@ (IF end_center = None THEN <<>>
                      ELSE [endPoint |-> [x |-> end_center[1][1] - offset[1],
                                          y |-> end_center[1][2] - offset[2]]])
                  @@ [bendPoints |-> <<>>])

\* ElkGraphSvg._fallback_section
_fallback_section(ports, edge, offset) ==
    LET start_center == _port_center(ports, FirstPort(edge, "sources"))
        end_center == _port_center(ports, FirstPort(edge, "targets"))
    IN  IF start_center = None \/ end_center = None THEN None
        ELSE Some([startPoint |-> [x |-> start_center[1][1] - offset[1],
                                   y |-> start_center[1][2] - offset[2]],
                   endPoint |-> [x |-> end_center[1][1] - offset[1],
                                 y |-> end_center[1][2] - offset[2]],
                   bendPoints |-> <<>>])

\* [f(lbl) ...] of a labels group: each label's optional background
\* rectangle, then its text
RECURSIVE LabelElements(_, _, _, _)
LabelElements(ports, lbls, i, owner_kind) ==
    IF i > Len(lbls) THEN <<>>
    ELSE _label_background_rect(lbls[i])
         \o <<_label_to_text(ports, lbls[i], Some(owner_kind))>>
         \o LabelElements(ports, lbls, i + 1, owner_kind)

\* The polyline and the bend markers the edges loop draws for one section
SectionElements(ports, edge, section, offset) ==
    LET points == _section_points(ports, edge, section, offset)
        render == _edge_rendering(edge)
        thickness == _edge_thickness(edge)
        bends == BendPoints(section, offset)
    IN  IF points = <<>> THEN <<>>
        ELSE <<[tag |-> "polyline", points |-> points,
                \* None: the stroke width of self.edge_style
                stroke_width |-> IF thickness = None \/ thickness[1] = 0
                                 THEN None ELSE thickness,
                marker_end |-> render.marker_end,
                marker_start |-> render.marker_start,
                stroke_dasharray |-> render.stroke_dasharray]>>
             \o [i \in DOMAIN bends |->
                    [tag |-> "circle", cx |-> bends[i][1], cy |-> bends[i][2],
                     r |-> "2"]]

RECURSIVE SectionsElements(_, _, _, _, _)
SectionsElements(ports, edge, sections, i, offset) ==
    IF i > Len(sections) THEN <<>>
    ELSE SectionElements(ports, edge, sections[i], offset)
         \o SectionsElements(ports, edge, sections, i + 1, offset)

\* The class tokens the edges loop gives an edge group
EdgeClasses(edge) ==
    LET etype == _edge_type(edge)
    IN  IF etype # None /\ etype[1] # <<>> THEN <<<<"e", "d", "g", "e">>, etype[1]>>
        ELSE <<<<"e", "d", "g", "e">>>>

\* The svg.G the edges loop builds for one entry of self.edges
EdgeGroup(ports, edge_labels, entry) ==
    LET edge == entry.edge
        offset == entry.offset
        declared == Get(edge, "sections", <<>>)
        fallback == _fallback_section(ports, edge, offset)
        sections == IF declared # <<>> THEN declared ELSE fallback
        junctions == Get(edge, "junctionPoints", <<>>)
        labels_g == LabelElements(ports, Get(edge_labels, Get(edge, "id", ""), <<>>),
                                  1, "edge")
    IN  [tag |-> "g", id |-> GetOpt(edge, "id"),
         class |-> Join(EdgeClasses(edge), <<" ">>),
         elements |->
            SectionsElements(ports, edge, sections, 1, offset)
            \o [i \in DOMAIN junctions |->
                  LET j == _apply_offset(junctions[i], offset)
                  IN  [tag |-> "circle", cx |-> j[1], cy |-> j[2], r |-> "2.5"]]
            \o (IF labels_g # <<>>
                THEN <<[tag |-> "g", class |-> "labels", elements |-> labels_g]>>
                ELSE <<>>)]

RECURSIVE EdgeGroups(_, _, _, _)
EdgeGroups(ports, edge_labels, entries, i) ==
    IF i > Len(entries) THEN <<>>
    ELSE Only({ IF g.elements # <<>> THEN <<g>> ELSE <<>>
                : g \in {EdgeGroup(ports, edge_labels, entries[i])} })
         \o EdgeGroups(ports, edge_labels, entries, i + 1)

\* ElkGraphSvg._build_edges_group: None when no edge group has content
_build_edges_group(ports, edge_entries, label_maps) ==
    Only({ IF groups = <<>> THEN None
           ELSE Some([tag |-> "g", id |-> Some("edges"), elements |-> groups])
           : groups \in {EdgeGroups(ports, label_maps.edge, edge_entries, 1)} })

---------------------------------------------------------------------------
(* Rendering Tree Builder: definitions, nodes, and the document.           *)

\* if icon_name: str(icon_name) -- None when the node declares no icon or
\* an empty one
IconNameOf(node) ==
    IF "icon" \in DOMAIN node.raw /\ node.raw.icon # <<>> THEN Some(node.raw.icon)
    ELSE None

\* ElkGraphSvg._build_icon_defs; resp maps an icon name to the backend's
\* answer should it be asked during this call
RECURSIVE IconDefsFrom(_, _, _, _, _)
IconDefsFrom(ic, node_list, i, seen, resp) ==
    IF i > Len(node_list) THEN [ic |-> ic, defs |-> <<>>]
    ELSE LET icon_name == IconNameOf(node_list[i])
         IN  IF icon_name = None \/ icon_name[1] \in seen
             THEN IconDefsFrom(ic, node_list, i + 1, seen, resp)
             ELSE Only({
                    IF geom.ic.raised # "" THEN [ic |-> geom.ic, defs |-> <<>>]
                    ELSE IF geom.value = None
                    THEN IconDefsFrom(geom.ic, node_list, i + 1,
                                      seen \cup {icon_name[1]}, resp)
                    ELSE Only({ Only({
                            [ic |-> rest.ic,
                             defs |-> <<[tag |-> "raw", def_id |-> named.id,
                                         inner |-> geom.value[1][1]]>> \o rest.defs]
                            : rest \in {IconDefsFrom(named.ic, node_list, i + 1,
                                                     seen \cup {icon_name[1]}, resp)} })
                        : named \in {_icon_def_id(geom.ic, icon_name[1])} })
                    : geom \in {_icon_geometry(ic, icon_name[1], resp[icon_name[1]])} })

\* Icon definitions listed from the last node to the first
_build_icon_defs_backwards(ic, node_list, resp) ==
    Only({ [r EXCEPT !.defs = [i \in DOMAIN r.defs |-> r.defs[Len(r.defs) + 1 - i]]]
           : r \in {IconDefsFrom(ic, node_list, 1, {}, resp)} })

_build_icon_defs(ic, node_list, resp) == IconDefsFrom(ic, node_list, 1, {}, resp)

\* The three fixed markers of _build_defs
Markers ==
    << [tag |-> "marker", id |-> Some("arrow")],
       [tag |-> "marker", id |-> Some("arrow-open")],
       [tag |-> "marker", id |-> Some("triangle-hollow")] >>

\* A defs block that resolves the icons and lists the markers only
_build_defs_markers_only(ic, cache, node_list, resp) ==
    IF cache # None THEN [ic |-> ic, cache |-> cache, defs |-> cache[1]]
    ELSE Only({
            LET defs == [tag |-> "defs", id |-> None, elements |-> Markers]
            IN  IF icons.ic.raised # ""
                THEN [ic |-> icons.ic, cache |-> cache, defs |-> defs]
                ELSE [ic |-> icons.ic, cache |-> Some(defs), defs |-> defs]
            : icons \in {_build_icon_defs(ic, node_list, resp)} })

\* ElkGraphSvg._build_defs, memoized in cache (self._defs_cache)
_build_defs(ic, cache, node_list, resp) ==
    IF cache # None THEN [ic |-> ic, cache |-> cache, defs |-> cache[1]]
    ELSE Only({
            LET defs == [tag |-> "defs", id |-> None, elements |-> Markers \o icons.defs]
            IN  IF icons.ic.raised # ""
                THEN [ic |-> icons.ic, cache |-> cache, defs |-> defs]
                ELSE [ic |-> icons.ic, cache |-> Some(defs), defs |-> defs]
            : icons \in {_build_icon_defs(ic, node_list, resp)} })

\* A canvas that takes each declared dimension of the root on its own
_canvas_size_per_dimension(g, node_list, pad) ==
    LET xs == [i \in DOMAIN node_list |-> node_list[i].x + node_list[i].width]
        ys == [i \in DOMAIN node_list |-> node_list[i].y + node_list[i].height]
        width == IF "width" \in DOMAIN g THEN g.width
                 ELSE IF xs = <<>> THEN 0 ELSE SeqMax(xs, 2, xs[1])
        height == IF "height" \in DOMAIN g THEN g.height
                  ELSE IF ys = <<>> THEN 0 ELSE SeqMax(ys, 2, ys[1])
    IN  <<width + pad * 2, height + pad * 2>>

\* ElkGraphSvg._canvas_size
_canvas_size(g, node_list, pad) ==
    LET xs == [i \in DOMAIN node_list |-> node_list[i].x + node_list[i].width]
        ys == [i \in DOMAIN node_list |-> node_list[i].y + node_list[i].height]
        declared == "width" \in DOMAIN g /\ "height" \in DOMAIN g
        width == IF declared THEN g.width
                 ELSE IF xs = <<>> THEN 0 ELSE SeqMax(xs, 2, xs[1])
        height == IF declared THEN g.height
                  ELSE IF ys = <<>> THEN 0 ELSE SeqMax(ys, 2, ys[1])
    IN  <<width + pad * 2, height + pad * 2>>

\* ElkGraphSvg._build_background_rect
_build_background_rect(g, pad, canvas_width, canvas_height) ==
    LET width == canvas_width - pad * 2
        height == canvas_height - pad * 2
    IN  IF width <= 0 \/ height <= 0 THEN None
        ELSE Some([tag |-> "rect", id |-> GetOpt(g, "id"), class |-> "background",
                   x |-> pad, y |-> pad, width |-> width, height |-> height])

\* ElkGraphSvg._build_style_element; default_css is what default_theme_css()
\* returns ("" when the bundled file cannot be read)
_build_style_element(embed, css, default_css) ==
    LET css_text == IF css # None THEN css[1] ELSE default_css
    IN  IF ~embed \/ css_text = "" THEN None
        ELSE Some([tag |-> "style", id |-> None, content |-> css_text])

\* ElkGraphSvg._icon_element
_icon_element(ic, icon_name, node, resp) ==
    Only({
        IF geom.value = None THEN [ic |-> geom.ic, element |-> None]
        ELSE LET vb_w == geom.value[1][2]
                 vb_h == geom.value[1][3]
                 target_w == IF node.width - 8 > 1 THEN node.width - 8 ELSE 1
                 target_h == IF node.height - 8 > 1 THEN node.height - 8 ELSE 1
                 \* min(target_w / vb_w, target_h / vb_h) as <<numerator, denominator>>
                 scale == IF target_w * vb_h <= target_h * vb_w
                          THEN <<target_w, vb_w>> ELSE <<target_h, vb_h>>
             IN  Only({
                    [ic |-> named.ic,
                     element |-> Some([tag |-> "raw", class |-> "icon",
                                       translate |-> <<node.x + Half(node.width),
                                                       node.y + Half(node.height)>>,
                                       scale |-> scale, href |-> named.id])]
                    : named \in {_icon_def_id(geom.ic, icon_name)} })
        : geom \in {_icon_geometry(ic, icon_name, resp)} })

\* The class tokens the nodes loop gives a node group
NodeClasses(node) ==
    LET node_type == Get(node.raw, "type", <<>>)
    IN  IF node_type # <<>> THEN <<<<"n", "o", "d", "e">>, node_type>>
        ELSE <<<<"n", "o", "d", "e">>>>

\* The owners of any label, with or without text
OwnersOfAnyLabel(lbls) == {lbls[i].owner : i \in DOMAIN lbls}

\* owners_with_labels of _build_nodes_group
OwnersWithLabels(lbls) ==
    {lbls[i].owner : i \in {j \in DOMAIN lbls : Get(lbls[j], "text", "") # ""}}

\* The children of a node's labels group
NodeLabelElements(ports, lbls, node_label_map, node) ==
    LET routed == Get(node_label_map, node.id, <<>>)
    IN  IF routed # <<>>
        THEN [i \in DOMAIN routed |-> _label_to_text(ports, routed[i], Some("node"))]
        ELSE IF node.id \notin OwnersWithLabels(lbls)
        THEN <<[tag |-> "text", text |-> node.id,
                x |-> node.x + Half(node.width), y |-> node.y + Half(node.height),
                font_size |-> DefaultFontSize, text_anchor |-> "middle",
                dominant_baseline |-> "middle"]>>
        ELSE <<>>

\* The svg.G of one port of a node
PortGroup(ports, port_label_map, port) ==
    LET port_abs == ports[port.id]
        port_labels == LabelElements(ports, Get(port_label_map, port.id, <<>>), 1, "port")
    IN  [tag |-> "g", id |-> Some(port.id), class |-> "port",
         elements |->
            <<[tag |-> "rect", x |-> port_abs.x, y |-> port_abs.y,
               width |-> Get(port_abs, "width", 0),
               height |-> Get(port_abs, "height", 0)]>>
            \o (IF port_labels # <<>>
                THEN <<[tag |-> "g", class |-> "labels", elements |-> port_labels]>>
                ELSE <<>>)]

\* The svg.G the nodes loop builds for one node
NodeGroup(ic, ports, lbls, label_maps, node, resp) ==
    LET icon_name == IconNameOf(node)
        icon == IF icon_name = None THEN [ic |-> ic, element |-> None]
                ELSE _icon_element(ic, icon_name[1], node, resp[icon_name[1]])
        raw_ports == Get(node.raw, "ports", <<>>)
        port_groups == [i \in DOMAIN raw_ports |->
                          PortGroup(ports, label_maps.port, raw_ports[i])]
    IN  [ic |-> icon.ic,
         group |->
            [tag |-> "g", id |-> Some(node.id),
             class |-> Join(NodeClasses(node), <<" ">>),
             elements |->
                <<[tag |-> "rect", x |-> node.x, y |-> node.y,
                   width |-> node.width, height |-> node.height]>>
                \o icon.element
                \o <<[tag |-> "g", class |-> "labels",
                      elements |-> NodeLabelElements(ports, lbls, label_maps.node, node)]>>
                \o (IF port_groups # <<>>
                    THEN <<[tag |-> "g", class |-> "ports", elements |-> port_groups]>>
                    ELSE <<>>)]]

RECURSIVE NodeGroups(_, _, _, _, _, _, _)
NodeGroups(ic, ports, lbls, label_maps, node_list, i, resp) ==
    IF i > Len(node_list) THEN [ic |-> ic, groups |-> <<>>]
    ELSE Only({
            IF g.ic.raised # "" THEN [ic |-> g.ic, groups |-> <<>>]
            ELSE Only({
                    [ic |-> rest.ic, groups |-> <<g.group>> \o rest.groups]
                    : rest \in {NodeGroups(g.ic, ports, lbls, label_maps, node_list,
                                           i + 1, resp)} })
            : g \in {NodeGroup(ic, ports, lbls, label_maps, node_list[i], resp)} })

\* ElkGraphSvg._build_nodes_group: None when there are no nodes
_build_nodes_group(ic, ports, lbls, label_maps, node_list, resp) ==
    Only({
        [ic |-> built.ic,
         group |-> IF built.groups = <<>> THEN None
                   ELSE Some([tag |-> "g", id |-> Some("nodes"),
                              elements |-> built.groups])]
        : built \in {NodeGroups(ic, ports, lbls, label_maps, node_list, 1, resp)} })

\* A document whose nodes layer is appended before its edges layer
RootElementsNodesFirst(bg_rect, style_el, defs, edges_group, nodes_group) ==
    bg_rect \o style_el \o <<defs>> \o nodes_group \o edges_group

\* The order in which to_svg_element appends the root's children; each
\* optional part is None or Some(element).
RootElements(bg_rect, style_el, defs, edges_group, nodes_group) ==
    bg_rect \o style_el \o <<defs>> \o edges_group \o nodes_group

\* ElkGraphSvg.to_svg_element: the root element and the memo tables it
\* leaves; root is None when an exception escapes (ic.raised names it)
to_svg_element(ic, cache, resp, default_css) ==
    Only({
        IF defs.ic.raised # "" THEN [ic |-> defs.ic, cache |-> defs.cache, root |-> None]
        ELSE Only({
            LET bg_rect == _build_background_rect(graph, padding, size[1], size[2])
                style_el == _build_style_element(embed_theme, theme_css, default_css)
                edges_group == _build_edges_group(port_lookup, edges, label_maps)
            IN  IF nodes_group.ic.raised # ""
                THEN [ic |-> nodes_group.ic, cache |-> defs.cache, root |-> None]
                ELSE [ic |-> nodes_group.ic, cache |-> defs.cache,
                      root |-> [tag |-> "svg", width |-> size[1], height |-> size[2],
                                elements |-> RootElements(bg_rect, style_el, defs.defs,
                                                          edges_group,
                                                          nodes_group.group)]]
            : nodes_group \in {_build_nodes_group(defs.ic, port_lookup, labels,
                                                  label_maps, nodes, resp)} })
        : size \in {_canvas_size(graph, nodes, padding)},
          defs \in {_build_defs(ic, cache, nodes, resp)},
          label_maps \in {_partition_labels(labels, edges, port_lookup, node_lookup)} })

\* An edges loop that stores the section it synthesized in the edge record
EdgeAfterDrawingStoring(ports, edge, offset) ==
    LET fallback == _fallback_section(ports, edge, offset)
    IN  IF Get(edge, "sections", <<>>) = <<>> /\ fallback # None
        THEN [k \in (DOMAIN edge) \cup {"sections"} |->
                IF k = "sections" THEN fallback ELSE edge[k]]
        ELSE edge

\* The edge record once the edges loop has drawn it: `sections = [fallback]`
\* binds a local name, the record keeps its keys and values
EdgeAfterDrawing(ports, edge, offset) == edge

\* The node record once the nodes loop has drawn it: the fallback label is
\* appended to the group being built, not to node["labels"]
NodeAfterDrawing(node) == node

\* The document once _build_edges_group and _build_nodes_group have walked
\* the records _collect_graph took from it
RECURSIVE GraphAfterDrawing(_, _, _)
GraphAfterDrawing(ports, g, offset) ==
    LET base_offset == <<offset[1] + Get(g, "x", 0), offset[2] + Get(g, "y", 0)>>
    IN  [k \in DOMAIN g |->
            IF k = "edges"
            THEN [i \in DOMAIN g.edges |->
                    EdgeAfterDrawing(ports, g.edges[i], base_offset)]
            ELSE IF k = "children"
            THEN [i \in DOMAIN g.children |->
                    NodeAfterDrawing(GraphAfterDrawing(ports, g.children[i], base_offset))]
            ELSE g[k]]

\* element.as_str(): the element and its descendants in document order,
\* one token for each start tag with its attributes and one for each end tag
RECURSIVE as_str(_)
RECURSIVE ChildrenAsStr(_, _)
ChildrenAsStr(elements, i) ==
    IF i > Len(elements) THEN <<>>
    ELSE as_str(elements[i]) \o ChildrenAsStr(elements, i + 1)

as_str(el) ==
    <<[open |-> [k \in (DOMAIN el) \ {"elements"} |-> el[k]]]>>
    \o ChildrenAsStr(Get(el, "elements", <<>>), 1)
    \o <<[close |-> el.tag]>>

\* The nesting depth of the i-th tag of a text
DepthOf(xml_text, i) ==
    Cardinality({j \in 1..(i - 1) : "open" \in DOMAIN xml_text[j]})
    - Cardinality({j \in 1..i : "close" \in DOMAIN xml_text[j]})

\* ElkGraphSvg._pretty_xml: every tag on a line of its own, indented by its
\* depth
_pretty_xml(xml_text) ==
    [k \in 1..(2 * Len(xml_text)) |->
        IF k % 2 = 1 THEN [indent |-> DepthOf(xml_text, (k + 1) \div 2)]
        ELSE xml_text[k \div 2]]

\* ElkGraphSvg.to_string(pretty=) from the point where to_svg_element has
\* returned built (or raised)
Serialized(built, pretty) ==
    IF built.root = None THEN [ic |-> built.ic, cache |-> built.cache, text |-> None]
    ELSE Only({
            [ic |-> built.ic, cache |-> built.cache,
             text |-> IF pretty THEN _pretty_xml(xml_text) ELSE xml_text]
            : xml_text \in {as_str(built.root)} })

\* ElkGraphSvg.to_string(pretty=)
to_string(ic, cache, resp, default_css, pretty) ==
    Only({ Serialized(built, pretty)
           : built \in {to_svg_element(ic, cache, resp, default_css)} })

---------------------------------------------------------------------------
(* The input documents of the model.  A document is a chain of nested      *)
(* nodes n1 > n2 > ... of a chosen depth under the root, with a sibling s1 *)
(* of n1; g.geoms gives the root (index 0) and every chain node the        *)
(* geometry it declares, and a scenario says which optional parts (types,  *)
(* icons, labels, edges) the document carries.                             *)

Num(n) == [num |-> n]

\* Declared geometries: nothing, all four fields, and only y and width.
Undeclared == <<>>
ClusterGeom == [x |-> 20, y |-> 20, width |-> 200, height |-> 120]
InnerGeom == [x |-> 15, y |-> 10, width |-> 40, height |-> 24]
PartialGeom == [y |-> 7, width |-> 30]
DeclGeoms == {Undeclared, ClusterGeom, InnerGeom, PartialGeom}

InnerPort == [x |-> 36, y |-> 10, width |-> 4, height |-> 4]
PortGeoms == {Undeclared, InnerPort}

Type100G == <<"1", "0", "0", "G">>
TypeRouterCore == <<"R", "o", "u", "t", "e", "r", " ", "C", "o", "r", "e">>
TypeEdgeDependency == <<"E", "d", "g", "e", " ", "D", "e", "p", "e", "n", "d", "e", "n", "c", "y">>

IconA == <<"m", "d", "i", ":", "r">>
IconB == <<"m", "d", "i", "-", "r">>
IconNames == {IconA, IconB}

\* A record fragment that is there only under a condition
When(cond, fragment) == IF cond THEN fragment ELSE <<>>

NodeId(k) == "n" \o ToString(k)

\* The record id that a scenario leaves out of the document, "" for none
Anonymous(sc) == Get(sc, "anonymous", "")

\* The "id" entry of a record, unless the scenario leaves it out
IdOf(sc, id) == When(Anonymous(sc) # id, [id |-> id])

PortOf(g, sc) ==
    IdOf(sc, "p") @@ g.port
    @@ When(sc.labels, [labels |-> <<[id |-> "pl", text |-> "east", x |-> 6, y |-> 0,
                                      width |-> 12, height |-> 4]>>])

\* The edge declared inside n1, in n1's coordinate frame
InnerEdge(sc) ==
    IdOf(sc, "e2") @@
    [sources |-> <<"p">>, targets |-> <<"p">>,
     sections |-> <<[startPoint |-> [x |-> 5, y |-> 6],
                     bendPoints |-> <<[x |-> 7, y |-> 6]>>]
                    @@ When(sc.edges # "partial", [endPoint |-> [x |-> 9, y |-> 8]])>>]

RECURSIVE ChainNode(_, _, _)
ChainNode(k, g, sc) ==
    IdOf(sc, NodeId(k)) @@ g.geoms[k]
    @@ When(k < g.depth, [children |-> <<ChainNode(k + 1, g, sc)>>])
    @@ When(k = g.depth, [ports |-> <<PortOf(g, sc)>>])
    @@ When(sc.types /\ k = 1, [type |-> Type100G])
    @@ When(sc.icons /\ k \in {1, g.depth}, [icon |-> IconA])
    @@ When(sc.labels /\ k = 1,
            [labels |-> <<[id |-> "nl1", text |-> "Node 1", x |-> 10, y |-> 8,
                           width |-> 30, height |-> 12]>>])
    @@ When(sc.edges \in {"sections", "partial"} /\ k = 1 /\ g.depth >= 2,
            [edges |-> <<InnerEdge(sc)>>])

Sibling(sc) ==
    IdOf(sc, "s1") @@
    [x |-> 140, y |-> 20, width |-> 50, height |-> 30,
     ports |-> <<IdOf(sc, "s1p") @@ [x |-> 0, y |-> 12, width |-> 4, height |-> 4]>>]
    @@ When(sc.types, [type |-> TypeRouterCore])
    @@ When(sc.icons, [icon |-> IconB])

RootEdge(sc) ==
    IdOf(sc, "e1") @@
    [targets |-> Get(sc, "targets",
                     IF sc.edges = "dangling_target" THEN <<"ghost">> ELSE <<"s1p">>),
     sources |-> Get(sc, "sources",
                     IF sc.edges = "dangling" THEN <<"ghost">> ELSE <<"p">>)]
    @@ When(sc.types, [type |-> TypeEdgeDependency])
    @@ When(sc.edges = "sections",
            [sections |-> <<[startPoint |-> [x |-> 60, y |-> 34],
                             bendPoints |-> <<[x |-> 100, y |-> 34]>>,
                             endPoint |-> [x |-> 140, y |-> 34]]>>,
             layoutOptions |-> ("org.eclipse.elk.edge.type" :> T_DEPENDENCY)
                               @@ ("org.eclipse.elk.edge.thickness" :> Num(2))])
    @@ When(sc.edges = "partial",
            [sections |-> <<[bendPoints |-> <<[x |-> 100, y |-> 34]>>,
                             endPoint |-> [x |-> 140, y |-> 34]]>>])
    @@ When(sc.edges \in {"sections", "partial", "dangling", "dangling_target"},
            [junctionPoints |-> <<[x |-> 100, y |-> 34]>>])
    @@ When(sc.labels, [labels |-> <<[id |-> "el1", text |-> "edge-1", x |-> 95,
                                      y |-> 28, width |-> 20, height |-> 8]>>])

Document(g, sc) ==
    [id |-> "root"] @@ g.geoms[0]
    @@ When(g.depth >= 1, [children |-> <<ChainNode(1, g, sc), Sibling(sc)>>])
    @@ When(sc.edges # "none", [edges |-> <<RootEdge(sc)>>])

\* The scenarios: optional parts of the document and the configuration of
\* the renderer.
Scenarios ==
    { [types |-> FALSE, icons |-> FALSE, labels |-> FALSE, edges |-> "none",
       padding |-> 0, embed_theme |-> FALSE, theme_css |-> None],
      [types |-> TRUE, icons |-> FALSE, labels |-> TRUE, edges |-> "sections",
       padding |-> 3, embed_theme |-> FALSE, theme_css |-> None],
      [types |-> FALSE, icons |-> FALSE, labels |-> FALSE, edges |-> "fallback",
       padding |-> 0, embed_theme |-> TRUE, theme_css |-> Some("svg{color:red;}")],
      [types |-> TRUE, icons |-> FALSE, labels |-> TRUE, edges |-> "dangling",
       padding |-> 3, embed_theme |-> TRUE, theme_css |-> None],
      [types |-> FALSE, icons |-> FALSE, labels |-> FALSE, edges |-> "dangling_target",
       padding |-> 0, embed_theme |-> FALSE, theme_css |-> None],
      [types |-> FALSE, icons |-> TRUE, labels |-> FALSE, edges |-> "none",
       padding |-> 0, embed_theme |-> TRUE, theme_css |-> Some("")],
      [types |-> TRUE, icons |-> TRUE, labels |-> TRUE, edges |-> "sections",
       padding |-> 3, embed_theme |-> FALSE, theme_css |-> None] }

\* Every assignment of declared geometries to the root and the chain nodes
Geometries ==
    UNION { [depth : {d}, geoms : [0..d -> DeclGeoms], port : PortGeoms] :
            d \in 0..MaxDepth }

\* One assignment per depth: an undeclared root, n1 a cluster, the nodes
\* below it small
BaseGeometries ==
    { [depth |-> d,
       geoms |-> [k \in 0..d |-> IF k = 0 THEN Undeclared
                                 ELSE IF k = 1 THEN ClusterGeom ELSE InnerGeom],
       port |-> InnerPort] : d \in 0..MaxDepth }

---------------------------------------------------------------------------
(* The renderer: construction, icon lookups and rendering.                 *)

\* What the icon backend can answer: a failure the handler catches, or a text
EmptyText == [empty |-> TRUE]
BadXml == [empty |-> FALSE, xml |-> FALSE]
GoodIcon == [empty |-> FALSE, xml |-> TRUE, inner |-> "path24x12",
             attrs |-> [viewBox |-> <<Num(0), Num(0), Num(24), Num(12)>>]]
ZeroIcon == [empty |-> FALSE, xml |-> TRUE, inner |-> "path0",
             attrs |-> [width |-> Num(0), height |-> Num(0)]]
IconTexts == {EmptyText, BadXml, GoodIcon, ZeroIcon}
Responses ==
    {[ok |-> FALSE, caught |-> c] : c \in BOOLEAN}
    \cup {[ok |-> TRUE, data |-> t] : t \in IconTexts}

\* What default_theme_css() can return: the bundled sheet, or "" when it
\* cannot be read
DefaultThemes == {"", ".node{}"}

\* The memo tables of the renderer as one record
IconState ==
    [icon_cache |-> _icon_cache, icon_geom_cache |-> _icon_geom_cache,
     icon_def_ids |-> _icon_def_ids, contacts |-> contacts, disk |-> disk,
     raised |-> ""]

SetIconState(ic) ==
    /\ _icon_cache' = ic.icon_cache
    /\ _icon_geom_cache' = ic.icon_geom_cache
    /\ _icon_def_ids' = ic.icon_def_ids
    /\ contacts' = ic.contacts
    /\ disk' = ic.disk
    /\ raised' = ic.raised

\* ElkGraphSvg.__init__(graph, padding=, embed_theme=, theme_css=)
Construct(doc, sc) ==
    \E c \in {_collect_graph(doc, <<0, 0>>, EmptyCollections)} :
        /\ graph = doc
        /\ padding = sc.padding
        /\ embed_theme = sc.embed_theme
        /\ theme_css = sc.theme_css
        /\ nodes = c.nodes
        /\ edges = c.edges
        /\ labels = c.labels
        /\ port_lookup = c.port_lookup
        /\ node_lookup = c.node_lookup
        /\ _icon_cache = <<>>
        /\ _icon_geom_cache = <<>>
        /\ _icon_def_ids = <<>>
        /\ _defs_cache = None
        /\ contacts = <<>>
        /\ disk = None
        /\ called = <<"__init__">>
        /\ returned = None
        /\ raised = c.raised

\* __init__ returned: there is a renderer to call
Constructed == ~(called = <<"__init__">> /\ raised # "")

\* A renderer just constructed from a document with icons in which two
\* nested nodes name the same icon and their sibling another one
Init ==
    /\ \E g \in {b \in BaseGeometries : b.depth = 2},
          sc \in {s \in Scenarios : s.icons} :
            Construct(Document(g, sc), sc)
    /\ arg = None

\* No lookup of a name is started once the backend was asked MaxContacts
\* times for it.
WithinContacts(names) == \A n \in names : Get(contacts, n, 0) < MaxContacts

\* renderer._fetch_icon_svg(icon_name)
FetchIconSvg ==
    /\ Constructed
    /\ \E icon_name \in IconNames, resp \in Responses :
           \E r \in {_fetch_icon_svg(IconState, icon_name, resp)} :
               /\ WithinContacts({icon_name})
               /\ SetIconState(r.ic)
               /\ called' = <<"_fetch_icon_svg", icon_name>>
               /\ returned' = r.value
               /\ UNCHANGED <<config_vars, collection_vars, _defs_cache, arg>>

\* renderer._icon_geometry(icon_name)
IconGeometry ==
    /\ Constructed
    /\ \E icon_name \in IconNames, resp \in Responses :
           \E r \in {_icon_geometry(IconState, icon_name, resp)} :
               /\ WithinContacts({icon_name})
               /\ SetIconState(r.ic)
               /\ called' = <<"_icon_geometry", icon_name>>
               /\ returned' = r.value
               /\ UNCHANGED <<config_vars, collection_vars, _defs_cache, arg>>

\* The icon names the nodes of the document declare
DeclaredIcons == {IconNameOf(nodes[i])[1] : i \in {j \in DOMAIN nodes : IconNameOf(nodes[j]) # None}}

\* The answers the backend may give during one call of to_svg_element; only
\* the names the document declares and no memo table holds can be asked for.
RenderResponses ==
    LET asked == DeclaredIcons \ (DOMAIN _icon_cache \cup DOMAIN _icon_geom_cache)
    IN  {resp \in [IconNames -> Responses] :
            \A n \in IconNames \ asked : resp[n] = [ok |-> FALSE, caught |-> TRUE]}

\* default_theme_css() is called only when the theme is embedded and no
\* explicit CSS was given.
DefaultThemeResults ==
    IF embed_theme /\ theme_css = None THEN DefaultThemes ELSE {""}

\* renderer.to_svg_element()
ToSvgElement ==
    /\ Constructed
    /\ \E resp \in RenderResponses, default_css \in DefaultThemeResults :
           \E r \in {to_svg_element(IconState, _defs_cache, resp, default_css)} :
               /\ WithinContacts(IconNames)
               /\ SetIconState(r.ic)
               /\ _defs_cache' = r.cache
               /\ graph' = GraphAfterDrawing(port_lookup, graph, <<0, 0>>)
               /\ called' = <<"to_svg_element">>
               /\ returned' = r.root
               /\ UNCHANGED <<padding, embed_theme, theme_css, collection_vars, arg>>

\* renderer.to_string(pretty=pretty)
RenderToString ==
    /\ Constructed
    /\ \E resp \in RenderResponses, default_css \in DefaultThemeResults :
         \E built \in {to_svg_element(IconState, _defs_cache, resp, default_css)} :
           \E pretty \in BOOLEAN : \E r \in {Serialized(built, pretty)} :
               /\ WithinContacts(IconNames)
               /\ SetIconState(r.ic)
               /\ _defs_cache' = r.cache
               /\ graph' = GraphAfterDrawing(port_lookup, graph, <<0, 0>>)
               /\ called' = <<"to_string", pretty>>
               /\ returned' = r.text
               /\ UNCHANGED <<padding, embed_theme, theme_css, collection_vars, arg>>

Next == FetchIconSvg \/ IconGeometry \/ ToSvgElement \/ RenderToString

Spec == Init /\ [][Next]_vars

\* Renderers over every geometry, rendered without icon lookups
InitGeometry ==
    /\ \E g \in Geometries, sc \in {s \in Scenarios : ~s.icons} :
            Construct(Document(g, sc), sc)
    /\ arg = None

NextGeometry == ToSvgElement

SpecGeometry == InitGeometry /\ [][NextGeometry]_vars

\* A document whose sections leave out a start or an end point: the root
\* edge's section has no startPoint, the section of n1's edge no endPoint
PartialScenario ==
    [types |-> FALSE, icons |-> FALSE, labels |-> FALSE, edges |-> "partial",
     padding |-> 0, embed_theme |-> FALSE, theme_css |-> None]

\* Renderers over every geometry of documents whose edges declare sections
InitRouting ==
    /\ \E g \in Geometries,
          sc \in {s \in Scenarios : ~s.icons /\ s.edges = "sections"} \cup {PartialScenario} :
            Construct(Document(g, sc), sc)
    /\ arg = None

NextRouting == ToSvgElement

SpecRouting == InitRouting /\ [][NextRouting]_vars

\* Documents whose root edge declares no sections and lists one or two
\* source and target ports, known or not
PortLists == {<<"p">>, <<"s1p">>, <<"p", "s1p">>, <<"s1p", "p">>, <<"p", "ghost">>,
              <<"ghost", "p">>}
FallbackScenarios ==
    { [types |-> FALSE, icons |-> FALSE, labels |-> FALSE, edges |-> "fallback",
       padding |-> 0, embed_theme |-> FALSE, theme_css |-> None,
       sources |-> s, targets |-> t] : s \in PortLists, t \in PortLists }

\* The offsets _fallback_section is called with on its own
Offsets == {<<0, 0>>, <<20, 20>>, <<-5, 3>>}

InitFallback ==
    /\ \E g \in {geo \in Geometries : geo.depth = 1}, sc \in FallbackScenarios :
            Construct(Document(g, sc), sc)
    /\ arg \in Offsets

\* renderer._fallback_section(renderer.edges[0]["edge"], arg)
FallbackSection ==
    /\ called' = <<"_fallback_section", arg>>
    /\ returned' = _fallback_section(port_lookup, edges[1].edge, arg)
    /\ raised' = ""
    /\ UNCHANGED <<config_vars, collection_vars, icon_vars, arg>>

NextFallback == FallbackSection \/ ToSvgElement

SpecFallback == InitFallback /\ [][NextFallback]_vars

\* The ids of the records of the generated documents
RecordIds == {"n1", "n2", "n3", "s1", "p", "s1p", "e1", "e2"}

\* Renderers constructed from documents in which one record, or none, has
\* no "id"
InitMalformed ==
    /\ \E g \in BaseGeometries, sc \in {s \in Scenarios : ~s.icons},
          id \in RecordIds \cup {""} :
            Construct(Document(g, sc @@ [anonymous |-> id]), sc)
    /\ arg = None

NextMalformed == ToSvgElement \/ RenderToString

SpecMalformed == InitMalformed /\ [][NextMalformed]_vars

---------------------------------------------------------------------------
(* The Label Router on its own: a renderer of the minimal graph whose      *)
(* labels, edges and lookup tables were then set directly.                 *)

MinimalGraph == [id |-> "root", width |-> 10, height |-> 10,
                 children |-> <<>>, edges |-> <<>>]
PlainScenario ==
    [types |-> FALSE, icons |-> FALSE, labels |-> FALSE, edges |-> "none",
     padding |-> 0, embed_theme |-> FALSE, theme_css |-> None]

\* Sequences over S of length at most n
RECURSIVE SeqsUpTo(_, _)
SeqsUpTo(S, n) ==
    IF n = 0 THEN {<<>>}
    ELSE LET shorter == SeqsUpTo(S, n - 1)
         IN  shorter \cup {Append(q, e) : q \in {t \in shorter : Len(t) = n - 1}, e \in S}

\* The owner and owner_kind entries a label may carry: absent, or one of
\* these values ("a" is the id that may be known, "z" is never known)
LabelOwners == {"", "a", "z"}
LabelKinds == {"node", "port", "edge", "graph"}
LabelShapes ==
    { When(o # None, [owner |-> o[1]]) @@ When(k # None, [owner_kind |-> k[1]]) :
        o \in {None} \cup {Some(v) : v \in LabelOwners},
        k \in {None} \cup {Some(v) : v \in LabelKinds} }

\* The i-th label of a list gets the id i, so that equal shapes stay apart
Numbered(shapes) ==
    [i \in DOMAIN shapes |->
        shapes[i] @@ [id |-> i, text |-> "t", x |-> 1, y |-> 1, width |-> 0, height |-> 0]]

InitLabels ==
    \E shapes \in SeqsUpTo(LabelShapes, MaxLabels),
       node_ids \in SUBSET {"a"}, port_ids \in SUBSET {"a"}, edge_ids \in SUBSET {"a"} :
        /\ graph = MinimalGraph
        /\ padding = 0
        /\ embed_theme = FALSE
        /\ theme_css = None
        /\ nodes = <<>>
        /\ labels = Numbered(shapes)
        /\ edges = IF "a" \in edge_ids
                   THEN <<[edge |-> [id |-> "a"], offset |-> <<0, 0>>]>> ELSE <<>>
        /\ port_lookup = [i \in port_ids |-> [id |-> i, side |-> "WEST", x |-> 0, y |-> 0,
                                              width |-> 2, height |-> 2]]
        /\ node_lookup = [i \in node_ids |-> [id |-> i]]
        /\ _icon_cache = <<>>
        /\ _icon_geom_cache = <<>>
        /\ _icon_def_ids = <<>>
        /\ _defs_cache = None
        /\ contacts = <<>>
        /\ disk = None
        /\ arg = None
        /\ called = <<"__init__">>
        /\ returned = None
        /\ raised = ""

\* renderer._partition_labels()
PartitionLabels ==
    /\ called' = <<"_partition_labels">>
    /\ returned' = _partition_labels(labels, edges, port_lookup, node_lookup)
    /\ raised' = ""
    /\ UNCHANGED <<config_vars, collection_vars, icon_vars, arg>>

NextLabels == PartitionLabels

SpecLabels == InitLabels /\ [][NextLabels]_vars

---------------------------------------------------------------------------
(* css_class_token and _edge_rendering on their own.                       *)

\* One character of each kind css_class_token tells apart
TokenAlphabet == {"R", "g", "1", " ", "-", "_", "!"}
TokenInputs ==
    SeqsUpTo(TokenAlphabet, MaxTokenLen) \cup {Type100G, TypeRouterCore, TypeEdgeDependency}

InitToken ==
    /\ Construct(MinimalGraph, PlainScenario)
    /\ arg \in TokenInputs

\* css_class_token(arg)
CssClassToken ==
    /\ called' = <<"css_class_token", arg>>
    /\ returned' = css_class_token(arg)
    /\ raised' = ""
    /\ UNCHANGED <<config_vars, collection_vars, icon_vars, arg>>

NextToken == CssClassToken

SpecToken == InitToken /\ [][NextToken]_vars

\* The type names _edge_rendering knows, a name it does not know, and ""
KnownTypes == {T_NONE, T_UNDIRECTED, T_DIRECTED, T_ASSOCIATION, T_DEPENDENCY,
               T_GENERALIZATION}
\* str.capitalize(): first character upper case, the rest lower case
Capitalized(s) == [i \in DOMAIN s |-> IF i = 1 THEN UpperChar(s[i]) ELSE LowerChar(s[i])]
TypeTexts ==
    KnownTypes \cup {Lower(t) : t \in KnownTypes} \cup {Capitalized(t) : t \in KnownTypes}
    \cup {<<"F", "O", "O">>, <<>>}

\* Edges that set the type in one option bag under one key, on the edge
\* itself, in both places, or nowhere
EdgeInputs ==
    { When(o # None, o[1]) @@ When(t # None, [type |-> t[1]]) :
        o \in {None} \cup {Some((bag :> (key :> v))) :
                             bag \in {"layoutOptions", "properties"},
                             key \in {EdgeTypeKeys[i] : i \in DOMAIN EdgeTypeKeys},
                             v \in TypeTexts},
        t \in {None} \cup {Some(v) : v \in TypeTexts} }

InitEdge ==
    /\ Construct(MinimalGraph, PlainScenario)
    /\ arg \in EdgeInputs

\* renderer._edge_rendering(arg)
EdgeRendering ==
    /\ called' = <<"_edge_rendering", arg>>
    /\ returned' = _edge_rendering(arg)
    /\ raised' = ""
    /\ UNCHANGED <<config_vars, collection_vars, icon_vars, arg>>

NextEdge == EdgeRendering

SpecEdge == InitEdge /\ [][NextEdge]_vars

\* What an edge can declare as its thickness: a number, or text float()
\* rejects
ThicknessValues == {Num(n) : n \in -MaxThickness..MaxThickness} \cup {[text |-> "bad"]}

\* Edges that declare nothing, or one thickness in one option bag under one
\* of the keys
ThicknessInputs ==
    {<<>>} \cup { (bag :> (key :> v)) :
                    bag \in {"layoutOptions", "properties"},
                    key \in {EdgeThicknessKeys[i] : i \in DOMAIN EdgeThicknessKeys},
                    v \in ThicknessValues }

InitThickness ==
    /\ Construct(MinimalGraph, PlainScenario)
    /\ arg \in ThicknessInputs

\* renderer._edge_thickness(arg)
EdgeThickness ==
    /\ called' = <<"_edge_thickness", arg>>
    /\ returned' = _edge_thickness(arg)
    /\ raised' = ""
    /\ UNCHANGED <<config_vars, collection_vars, icon_vars, arg>>

NextThickness == EdgeThickness

SpecThickness == InitThickness /\ [][NextThickness]_vars

\* Documents with one port p on one node n1, over the sizes of the node and
\* the positions and sizes of the port
SideNodes == [x : {0, 3}, y : {1}, width : {0, 2, 4}, height : {0, 2, 4}]
SidePorts == [x : 0..MaxPortOffset, y : 0..MaxPortOffset, width : {0, 1}, height : {0, 1}]
SideDocument(n, p) ==
    [id |-> "root",
     children |-> <<[id |-> "n1", ports |-> <<[id |-> "p"] @@ p>>] @@ n>>]

InitSides ==
    /\ \E n \in SideNodes, p \in SidePorts : Construct(SideDocument(n, p), PlainScenario)
    /\ arg = None

\* renderer._label_text_anchor(owner, owner_kind=owner_kind)
LabelTextAnchor ==
    \E owner \in {None, Some("p"), Some("n1"), Some("ghost")},
       owner_kind \in {None, Some("port"), Some("node"), Some("edge")} :
        /\ called' = <<"_label_text_anchor", owner, owner_kind>>
        /\ returned' = _label_text_anchor(port_lookup, owner, owner_kind)
        /\ raised' = ""
        /\ UNCHANGED <<config_vars, collection_vars, icon_vars, arg>>

NextSides == LabelTextAnchor

SpecSides == InitSides /\ [][NextSides]_vars

\* Documents with a port that declares two labels and an edge that declares
\* one, each of negative, zero or positive width and height
LabelExtents == {-2, 0, 4}
SizedLabels == [width : LabelExtents, height : LabelExtents]
SizedDocument(first, second, third) ==
    [id |-> "root",
     children |->
        <<[id |-> "a", x |-> 10, y |-> 20, width |-> 40, height |-> 24,
           ports |-> <<[id |-> "p", x |-> 40, y |-> 10, width |-> 4, height |-> 4,
                        labels |-> <<[id |-> "l1", text |-> "one", x |-> 6, y |-> 0] @@ first,
                                     [id |-> "l2", text |-> "two", x |-> 6, y |-> 8] @@ second>>]>>],
          [id |-> "b", x |-> 80, y |-> 20, width |-> 40, height |-> 24,
           ports |-> <<[id |-> "q", x |-> 0, y |-> 10, width |-> 4, height |-> 4]>>]>>,
     edges |-> <<[id |-> "e", sources |-> <<"p">>, targets |-> <<"q">>,
                  labels |-> <<[id |-> "l3", text |-> "three", x |-> 60, y |-> 24]
                               @@ third>>]>>]

InitSized ==
    /\ \E first \in SizedLabels, second \in SizedLabels, third \in SizedLabels :
            Construct(SizedDocument(first, second, third), PlainScenario)
    /\ arg = None

NextSized == ToSvgElement

SpecSized == InitSized /\ [][NextSized]_vars

\* Documents with one port whose label supplies x, y, both or neither
PlacedPorts == [x : {0, 3}, y : {0, 2}, width : {0, 4}, height : {0, 2}]
PlacedLabels ==
    { lx @@ ly @@ [id |-> "pl", text |-> "east", width |-> 0, height |-> 0] :
        lx \in {<<>>} \cup {[x |-> v] : v \in {0, 6}},
        ly \in {<<>>} \cup {[y |-> v] : v \in {0, 5}} }

InitPlaced ==
    /\ \E p \in PlacedPorts, l \in PlacedLabels :
            Construct(SideDocument([x |-> 3, y |-> 1, width |-> 4, height |-> 4],
                                   p @@ [labels |-> <<l>>]),
                      PlainScenario)
    /\ arg = None

NextPlaced == ToSvgElement

SpecPlaced == InitPlaced /\ [][NextPlaced]_vars

\* Label records handed to _label_to_text on its own: owned by the port, by
\* the node or by an unknown id, at any height around the port, flat or tall
BaselineLabels ==
    [owner : {"p", "n1", "ghost"}, text : {"A"}, x : {0}, width : {0},
     y : 0..(MaxPortOffset + 2), height : {0, 1, 2}]

InitBaseline ==
    /\ \E p \in {q \in SidePorts : q.x = 0 /\ q.width = 0} :
            Construct(SideDocument([x |-> 0, y |-> 1, width |-> 4, height |-> 4], p),
                      PlainScenario)
    /\ arg \in BaselineLabels

\* renderer._label_to_text(arg, owner_kind=owner_kind)
LabelToText ==
    \E owner_kind \in {None, Some("port"), Some("node"), Some("edge")} :
        /\ called' = <<"_label_to_text", arg, owner_kind>>
        /\ returned' = _label_to_text(port_lookup, arg, owner_kind)
        /\ raised' = ""
        /\ UNCHANGED <<config_vars, collection_vars, icon_vars, arg>>

NextBaseline == LabelToText

SpecBaseline == InitBaseline /\ [][NextBaseline]_vars

\* Items whose layoutOptions and properties are each absent, empty, or set
\* one alias of an option, with the key aliases of that option
OptionBags(keys, bag, value) ==
    {<<>>, (bag :> <<>>)} \cup {(bag :> (keys[i] :> value)) : i \in DOMAIN keys}
OptionInputs ==
    UNION { { [item |-> opts @@ props, keys |-> keys] :
                opts \in OptionBags(keys, "layoutOptions", "layout"),
                props \in OptionBags(keys, "properties", "properties") } :
            keys \in {EdgeTypeKeys, EdgeThicknessKeys, FontSizeKeys} }

InitOption ==
    /\ Construct(MinimalGraph, PlainScenario)
    /\ arg \in OptionInputs

\* renderer._option_value(item, *keys)
OptionValue ==
    /\ called' = <<"_option_value", arg>>
    /\ returned' = _option_value(arg.item, arg.keys)
    /\ raised' = ""
    /\ UNCHANGED <<config_vars, collection_vars, icon_vars, arg>>

NextOption == OptionValue

SpecOption == InitOption /\ [][NextOption]_vars

\* Documents with a node "a" and a node "b", a port on "a" and an edge,
\* where the port or the edge may carry the id "a" too, and each of the
\* node "a", the port and the edge declares no label, a label without
\* text, one with text, or both
LabelTexts == {<<>>, <<"">>, <<"t">>, <<"", "t">>}
DeclaredLabels(texts) ==
    When(texts # <<>>,
         [labels |-> [i \in DOMAIN texts |->
                        [id |-> i, text |-> texts[i], x |-> 1, y |-> 2,
                         width |-> 0, height |-> 0]]])
OwnedDocument(port_id, edge_id, node_texts, port_texts, edge_texts) ==
    [id |-> "root",
     children |->
        <<[id |-> "a", x |-> 10, y |-> 20, width |-> 40, height |-> 24,
           ports |-> <<[id |-> port_id, x |-> 40, y |-> 10, width |-> 4, height |-> 4]
                       @@ DeclaredLabels(port_texts)>>]
          @@ DeclaredLabels(node_texts),
          [id |-> "b", x |-> 80, y |-> 20, width |-> 40, height |-> 24]>>,
     edges |-> <<[id |-> edge_id, sources |-> <<port_id>>, targets |-> <<port_id>>]
                 @@ DeclaredLabels(edge_texts)>>]

InitOwned ==
    /\ \E port_id \in {"a", "p"}, edge_id \in {"a", "e"},
          node_texts \in LabelTexts, port_texts \in LabelTexts, edge_texts \in LabelTexts :
            Construct(OwnedDocument(port_id, edge_id, node_texts, port_texts, edge_texts),
                      PlainScenario)
    /\ arg = None

NextOwned == ToSvgElement

SpecOwned == InitOwned /\ [][NextOwned]_vars

---------------------------------------------------------------------------
(* The persistent icon cache.  The renderer of src/src/melk has none; the  *)
(* one the tests of src/tests/test_icon_cache.py drive keeps one file per  *)
(* icon name in a cache directory.  This part follows the specification:   *)
(* a cached file is used only if it holds well-formed SVG, otherwise the   *)
(* icon is fetched as _fetch_icon_svg fetches it and the file rewritten.   *)

\* The text parses as XML (ET.fromstring accepts it)
WellFormed(svg_text) == ~svg_text.empty /\ svg_text.xml

\* _load_icon_svg_from_disk: the text of the cache file of the name, None
\* when no directory is configured or the file does not exist
_load_icon_svg_from_disk(files, icon_name) ==
    IF files = None \/ icon_name \notin DOMAIN files[1] THEN None
    ELSE Some(files[1][icon_name])

\* _store_icon_svg_to_disk: (over)write the cache file of the name
_store_icon_svg_to_disk(files, icon_name, svg_text) ==
    IF files = None THEN None ELSE Some(Put(files[1], icon_name, svg_text))

\* _fetch_icon_svg of a renderer with a persistent cache: the memo table,
\* then a well-formed cache file, then the backend
_fetch_icon_svg_cached(ic, icon_name, resp) ==
    IF icon_name \in DOMAIN ic.icon_cache
    THEN [ic |-> ic, value |-> ic.icon_cache[icon_name]]
    ELSE Only({
            IF cached # None /\ WellFormed(cached[1])
            THEN [ic |-> [ic EXCEPT !.icon_cache = MemoSuccess(@, icon_name, cached[1])],
                  value |-> cached]
            ELSE Only({
                    IF fetched.ic.raised = "" /\ fetched.value # None
                    THEN [ic |-> [fetched.ic EXCEPT !.disk =
                                     _store_icon_svg_to_disk(@, icon_name, fetched.value[1])],
                          value |-> fetched.value]
                    ELSE fetched
                    : fetched \in {_fetch_icon_svg(ic, icon_name, resp)} })
            : cached \in {_load_icon_svg_from_disk(ic.disk, icon_name)} })

\* What the cache directory can hold when a renderer starts: nothing is
\* configured, or any of the texts for any of the names
CacheDirectories ==
    {None} \cup {Some(f) : f \in UNION {[S -> IconTexts] : S \in SUBSET IconNames}}

\* A renderer of the minimal graph, the cache directory as it was left
InitDisk ==
    /\ graph = MinimalGraph
    /\ padding = 0
    /\ embed_theme = FALSE
    /\ theme_css = None
    /\ nodes = <<>>
    /\ edges = <<>>
    /\ labels = <<>>
    /\ port_lookup = <<>>
    /\ node_lookup = <<>>
    /\ _icon_cache = <<>>
    /\ _icon_geom_cache = <<>>
    /\ _icon_def_ids = <<>>
    /\ _defs_cache = None
    /\ contacts = <<>>
    /\ disk \in CacheDirectories
    /\ arg = None
    /\ called = <<"__init__">>
    /\ returned = None
    /\ raised = ""

\* renderer._fetch_icon_svg(icon_name); arg keeps the answer the backend had
\* for this call
FetchIconSvgCached ==
    \E icon_name \in IconNames, resp \in Responses :
        \E r \in {_fetch_icon_svg_cached(IconState, icon_name, resp)} :
            /\ WithinContacts({icon_name})
            /\ SetIconState(r.ic)
            /\ arg' = Some(resp)
            /\ called' = <<"_fetch_icon_svg", icon_name>>
            /\ returned' = r.value
            /\ UNCHANGED <<config_vars, collection_vars, _defs_cache>>

NextDisk == FetchIconSvgCached

SpecDisk == InitDisk /\ [][NextDisk]_vars

---------------------------------------------------------------------------
(* Properties: the Geometry Resolver.                                      *)

\* The paths (child indices from the root) of the node records of a document
RECURSIVE Paths(_)
Paths(g) ==
    LET children == Get(g, "children", <<>>)
    IN  {<<>>} \cup UNION {{<<i>> \o q : q \in Paths(children[i])} : i \in DOMAIN children}

RECURSIVE NodeAt(_, _)
NodeAt(g, path) ==
    IF path = <<>> THEN g ELSE NodeAt(g.children[Head(path)], Tail(path))

\* The sum of the declared coordinate `key` of the root, of every ancestor of
\* the node at `path`, and of that node; a missing coordinate counts as 0
RECURSIVE DeclaredSum(_, _, _, _)
DeclaredSum(g, path, key, j) ==
    IF j > Len(path) THEN 0
    ELSE Get(NodeAt(g, SubSeq(path, 1, j)), key, 0) + DeclaredSum(g, path, key, j + 1)

\* C1: every node at any nesting depth is recorded, in self.nodes and in
\* self.node_lookup, at the sum of the declared (x, y) of the root, of all
\* its ancestors and of itself, and each of its ports at that position plus
\* the port's declared (x, y); missing coordinates count as 0.
C1_AbsolutePositions ==
    \A path \in Paths(graph) \ {<<>>} :
        LET node == NodeAt(graph, path)
            sum_x == DeclaredSum(graph, path, "x", 0)
            sum_y == DeclaredSum(graph, path, "y", 0)
            ports == Get(node, "ports", <<>>)
        IN  /\ node.id \in DOMAIN node_lookup
            /\ node_lookup[node.id].x = sum_x
            /\ node_lookup[node.id].y = sum_y
            /\ \E i \in DOMAIN nodes : nodes[i] = node_lookup[node.id]
            /\ \A k \in DOMAIN ports :
                /\ ports[k].id \in DOMAIN port_lookup
                /\ port_lookup[ports[k].id].x = sum_x + Get(ports[k], "x", 0)
                /\ port_lookup[ports[k].id].y = sum_y + Get(ports[k], "y", 0)

\* A child at local (15,10) inside a subgraph at (20,20) is recorded at
\* (35,30), and its port at local (36,10) at (71,40).
C1_Witness ==
    /\ "n2" \in DOMAIN node_lookup
    /\ "p" \in DOMAIN port_lookup
    /\ Get(graph, "x", 0) = 0 /\ Get(graph, "y", 0) = 0
    /\ Get(node_lookup["n1"].raw, "x", 0) = 20 /\ Get(node_lookup["n1"].raw, "y", 0) = 20
    /\ Get(node_lookup["n2"].raw, "x", 0) = 15 /\ Get(node_lookup["n2"].raw, "y", 0) = 10
    /\ node_lookup["n2"].x = 35 /\ node_lookup["n2"].y = 30
    /\ port_lookup["p"].owner = "n2"
    /\ port_lookup["p"].x = 71 /\ port_lookup["p"].y = 40

---------------------------------------------------------------------------
(* Properties: the Label Router.                                           *)

Buckets == {"node", "port", "edge"}

\* The label lbl is in the list the result keeps under `key` in `bucket`
FiledUnder(result, bucket, key, lbl) ==
    /\ key \in DOMAIN result[bucket]
    /\ \E j \in DOMAIN result[bucket][key] : result[bucket][key][j] = lbl

\* The places (bucket, key, position) of the result that hold lbl
PlacesOf(result, lbl) ==
    UNION { UNION { { <<b, k, j>> : j \in {i \in DOMAIN result[b][k] : result[b][k][i] = lbl} } :
                    k \in DOMAIN result[b] } : b \in Buckets }

\* The ids of the edges the renderer holds
KnownEdgeIds == {edges[i].edge.id : i \in DOMAIN edges}

Routed == called = <<"_partition_labels">>

\* C2: a label without an owner-kind tag is filed under the edge bucket if its
\* owner id is a known edge id, else under the port bucket if it is a known
\* port id, else under the node bucket if it is a known node id, and under
\* no other bucket.
C2_InferredOwnerPrecedence ==
    Routed =>
        \A i \in DOMAIN labels :
            LET lbl == labels[i]
            IN  ("owner_kind" \notin DOMAIN lbl /\ "owner" \in DOMAIN lbl) =>
                    LET bucket == IF lbl.owner \in KnownEdgeIds THEN "edge"
                                  ELSE IF lbl.owner \in DOMAIN port_lookup THEN "port"
                                  ELSE IF lbl.owner \in DOMAIN node_lookup THEN "node"
                                  ELSE "none"
                    IN  bucket # "none" =>
                            /\ FiledUnder(returned, bucket, lbl.owner, lbl)
                            /\ \A p \in PlacesOf(returned, lbl) : p[1] = bucket

\* An untagged label whose owner id is an edge id, a port id and a node id
\* was filed under edges.
C2_Witness ==
    /\ Routed
    /\ \E i \in DOMAIN labels :
        /\ "owner_kind" \notin DOMAIN labels[i]
        /\ "owner" \in DOMAIN labels[i]
        /\ labels[i].owner \in KnownEdgeIds \cap DOMAIN port_lookup \cap DOMAIN node_lookup
        /\ FiledUnder(returned, "edge", labels[i].owner, labels[i])

\* C3: a label tagged "node", "port" or "edge" is filed under exactly that
\* bucket, keyed by its owner id ("" when it has none), whatever id sets the
\* owner id belongs to.
C3_ExplicitOwnerKind ==
    Routed =>
        \A i \in DOMAIN labels :
            LET lbl == labels[i]
            IN  ("owner_kind" \in DOMAIN lbl /\ lbl.owner_kind \in Buckets) =>
                    /\ FiledUnder(returned, lbl.owner_kind,
                                  IF "owner" \in DOMAIN lbl THEN lbl.owner ELSE "", lbl)
                    /\ \A p \in PlacesOf(returned, lbl) : p[1] = lbl.owner_kind

\* A label tagged "node" whose owner id is a known edge id and port id but
\* no node id was filed under nodes, beside a tagged label without owner.
C3_Witness ==
    /\ Routed
    /\ \E i \in DOMAIN labels :
        /\ "owner_kind" \in DOMAIN labels[i] /\ labels[i].owner_kind = "node"
        /\ "owner" \in DOMAIN labels[i]
        /\ labels[i].owner \in (KnownEdgeIds \cap DOMAIN port_lookup) \ DOMAIN node_lookup
        /\ FiledUnder(returned, "node", labels[i].owner, labels[i])
    /\ \E i \in DOMAIN labels :
        /\ "owner_kind" \in DOMAIN labels[i] /\ labels[i].owner_kind = "port"
        /\ "owner" \notin DOMAIN labels[i]
        /\ FiledUnder(returned, "port", "", labels[i])

\* C4: every collected label is in exactly one place of the result, the
\* result holds nothing else, and an untagged label whose owner id is unknown
\* or absent is in the edge bucket under that owner id or "".
C4_EveryLabelFiledOnce ==
    Routed =>
        /\ \A i \in DOMAIN labels : Cardinality(PlacesOf(returned, labels[i])) = 1
        /\ \A b \in Buckets : \A k \in DOMAIN returned[b] : \A j \in DOMAIN returned[b][k] :
                \E i \in DOMAIN labels : labels[i] = returned[b][k][j]
        /\ \A i \in DOMAIN labels :
            LET lbl == labels[i]
                unknown == \/ "owner" \notin DOMAIN lbl
                           \/ lbl.owner \notin KnownEdgeIds \cup DOMAIN port_lookup
                                               \cup DOMAIN node_lookup
            IN  ("owner_kind" \notin DOMAIN lbl /\ unknown) =>
                    FiledUnder(returned, "edge",
                               IF "owner" \in DOMAIN lbl THEN lbl.owner ELSE "", lbl)

\* Two labels were filed under the same key of the edge bucket, one of them
\* untagged with an unknown owner id.
C4_Witness ==
    /\ Routed
    /\ Len(labels) = 2
    /\ "owner_kind" \notin DOMAIN labels[1] /\ "owner" \in DOMAIN labels[1]
    /\ labels[1].owner = "z"
    /\ "z" \in DOMAIN returned.edge
    /\ returned.edge["z"] = <<labels[1], labels[2]>>

---------------------------------------------------------------------------
(* Properties: the rendered document.                                      *)

\* to_svg_element was called and returned a document
Rendered == called = <<"to_svg_element">> /\ raised = ""

\* The position of a child of the root in the order rect, style, defs,
\* g#edges, g#nodes; 0 for anything else
RankOf(el) ==
    IF el.tag = "rect" THEN 1
    ELSE IF el.tag = "style" THEN 2
    ELSE IF el.tag = "defs" THEN 3
    ELSE IF el.tag = "g" /\ el.id = Some("edges") THEN 4
    ELSE IF el.tag = "g" /\ el.id = Some("nodes") THEN 5
    ELSE 0

\* An edge that has something to draw: a declared section, or two
\* endpoints that are known ports
Drawable(entry) ==
    \/ Get(entry.edge, "sections", <<>>) # <<>>
    \/ /\ Get(entry.edge, "sources", <<>>) # <<>>
       /\ Get(entry.edge, "targets", <<>>) # <<>>
       /\ entry.edge.sources[1] \in DOMAIN port_lookup
       /\ entry.edge.targets[1] \in DOMAIN port_lookup

MaxOf(S) == IF S = {} THEN 0 ELSE CHOOSE m \in S : \A e \in S : e <= m

\* C6: the canvas is (W + 2*padding, H + 2*padding), (W, H) being the root's
\* declared size when it declares both width and height, and otherwise the
\* largest absolute x + width and y + height over the flat nodes, 0 without
\* nodes.
C6_CanvasSize ==
    Rendered =>
        LET both == "width" \in DOMAIN graph /\ "height" \in DOMAIN graph
            W == IF both THEN graph.width
                 ELSE MaxOf({nodes[i].x + nodes[i].width : i \in DOMAIN nodes})
            H == IF both THEN graph.height
                 ELSE MaxOf({nodes[i].y + nodes[i].height : i \in DOMAIN nodes})
        IN  /\ returned.width = W + 2 * padding
            /\ returned.height = H + 2 * padding

\* Node extents (190, 50) under a root without a size and padding 3 gave a
\* canvas of (196, 56).
C6_Witness ==
    /\ Rendered
    /\ padding = 3
    /\ "width" \notin DOMAIN graph /\ "height" \notin DOMAIN graph
    /\ MaxOf({nodes[i].x + nodes[i].width : i \in DOMAIN nodes}) = 190
    /\ MaxOf({nodes[i].y + nodes[i].height : i \in DOMAIN nodes}) = 50
    /\ returned.width = 196 /\ returned.height = 56

---------------------------------------------------------------------------
(* Properties: class tokens.                                               *)

Token_type_100g == <<"t", "y", "p", "e", "-", "1", "0", "0", "g">>
Token_router_core == <<"r", "o", "u", "t", "e", "r", "-", "c", "o", "r", "e">>

Classified == Len(called) = 2 /\ called[1] = "css_class_token"

\* C7: css_class_token returns, for every text, a token that it maps to
\* itself: not empty, of lower-case letters, digits, "-" and "_" only, not
\* starting with a digit; "100G" gives "type-100g", "Router Core" gives
\* "router-core" and "" gives "type-unknown".
C7_TokenTotalIdempotent ==
    Classified =>
        /\ returned # <<>>
        /\ \A i \in DOMAIN returned :
                IsLower(returned[i]) \/ returned[i] \in Digits \cup {"-", "_"}
        /\ returned[1] \notin Digits
        /\ css_class_token(returned) = returned
        /\ arg = Type100G => returned = Token_type_100g
        /\ arg = TypeRouterCore => returned = Token_router_core
        /\ arg = <<>> => returned = TypeUnknown

\* A text that starts with a digit and has an upper-case letter was
\* classified, and the result was not the text itself.
C7_Witness ==
    /\ Classified
    /\ arg = Type100G
    /\ returned = Token_type_100g
    /\ returned # arg

\* The child of the root that is the layer g#name, None when there is none
LayerOf(root, name) ==
    LET found == {i \in DOMAIN root.elements :
                    root.elements[i].tag = "g" /\ root.elements[i].id = Some(name)}
    IN  IF found = {} THEN <<>> ELSE root.elements[CHOOSE i \in found : TRUE].elements

\* The class attribute made of a base word and the token of a type, the
\* base word alone for an item without type
ClassWithToken(base, item) ==
    IF "type" \in DOMAIN item /\ item.type # <<>>
    THEN base \o <<" ">> \o css_class_token(item.type)
    ELSE base

---------------------------------------------------------------------------
(* Properties: edge styling.                                               *)

EdgeStyled == Len(called) = 2 /\ called[1] = "_edge_rendering"

\* The resolved type of the edge that was styled is `name`, whatever the
\* case of its letters
ResolvedAs(name) == Lower(ResolvedEdgeType(arg)) = Lower(name)

\* C9: _edge_rendering gives no end marker for NONE and UNDIRECTED, "arrow"
\* for DIRECTED, "arrow-open" for ASSOCIATION, "arrow-open" and the dash
\* pattern "6 3" for DEPENDENCY, "triangle-hollow" for GENERALIZATION and
\* "arrow" for any other or no type, the type compared without regard to
\* case; it sets a dash pattern only for DEPENDENCY and never a start marker.
C9_EdgeRenderingPolicy ==
    EdgeStyled =>
        /\ returned.marker_start = None
        /\ returned.marker_end =
              IF ResolvedAs(T_NONE) \/ ResolvedAs(T_UNDIRECTED) THEN None
              ELSE IF ResolvedAs(T_ASSOCIATION) \/ ResolvedAs(T_DEPENDENCY)
              THEN Some("url(#arrow-open)")
              ELSE IF ResolvedAs(T_GENERALIZATION) THEN Some("url(#triangle-hollow)")
              ELSE Some("url(#arrow)")
        /\ returned.stroke_dasharray =
              IF ResolvedAs(T_DEPENDENCY) THEN Some("6 3") ELSE None

\* An edge whose type is written "Dependency" got the open arrow and the
\* dash pattern.
C9_Witness ==
    /\ EdgeStyled
    /\ ResolvedEdgeType(arg) = Capitalized(T_DEPENDENCY)
    /\ returned.marker_end = Some("url(#arrow-open)")
    /\ returned.stroke_dasharray = Some("6 3")
    /\ returned.marker_start = None

---------------------------------------------------------------------------
(* Properties: the Icon Resolver.                                          *)

\* C10: the icon backend is contacted at most once for an icon name, every
\* name it was contacted for has a memo entry (the text, or None after a
\* failed fetch), and a lookup that returns gives back the memo entry.
C10_BackendContactedOncePerName ==
    /\ \A n \in DOMAIN contacts : contacts[n] <= 1
    /\ \A n \in DOMAIN contacts : contacts[n] >= 1 => n \in DOMAIN _icon_cache
    /\ (Len(called) = 2 /\ called[1] = "_fetch_icon_svg" /\ raised = "")
            => /\ called[2] \in DOMAIN _icon_cache
               /\ _icon_cache[called[2]] = returned

-------------------------------------------------------------------------------------------------------------
(* The profile adapter (graphrender/profile.py): resolving the render      *)
(* bundle of a profile service into renderer arguments.  A bundle is a     *)
(* record; its texts are strings, renderCss a sequence of characters so    *)
(* that strip() is computed.  An exception is named by its type and        *)
(* message.                                                                *)

MissingField(field) ==
    "ValueError: Profile bundle is missing required field '" \o field \o "'."
EmptyRenderCss == "ValueError: Profile bundle field 'renderCss' must not be empty."
InvalidLiteral == "ValueError: invalid literal for int() with base 10"
IntTypeError == "TypeError: int() argument must be a string, a bytes-like object or a real number"

\* _require
_require(bundle, field) ==
    IF field \notin DOMAIN bundle
    THEN [raised |-> MissingField(field), value |-> None]
    ELSE [raised |-> "", value |-> bundle[field]]

\* int(value): a value is [num |-> n] (an integer, or text that parses to
\* n), [text |-> t] (text int() rejects) or [null |-> TRUE] (None)
ToInt(value) ==
    IF "num" \in DOMAIN value THEN [raised |-> "", value |-> value.num]
    ELSE IF "text" \in DOMAIN value THEN [raised |-> InvalidLiteral, value |-> None]
    ELSE [raised |-> IntTypeError, value |-> None]

\* resolve_profile_render_bundle without the strip() of line 38: only the
\* empty renderCss is rejected
resolve_profile_render_bundle_unstripped(bundle) ==
    LET profile_id == _require(bundle, "profileId")
        required_version == _require(bundle, "profileVersion")
        profile_version == ToInt(required_version.value)
        checksum == _require(bundle, "checksum")
        render_css == _require(bundle, "renderCss")
    IN  IF profile_id.raised # "" THEN [raised |-> profile_id.raised, value |-> None]
        ELSE IF required_version.raised # ""
        THEN [raised |-> required_version.raised, value |-> None]
        ELSE IF profile_version.raised # ""
        THEN [raised |-> profile_version.raised, value |-> None]
        ELSE IF checksum.raised # "" THEN [raised |-> checksum.raised, value |-> None]
        ELSE IF render_css.raised # "" THEN [raised |-> render_css.raised, value |-> None]
        ELSE IF render_css.value = <<>>
        THEN [raised |-> EmptyRenderCss, value |-> None]
        ELSE [raised |-> "",
              value |-> [profile_id |-> profile_id.value,
                         profile_version |-> profile_version.value,
                         checksum |-> checksum.value,
                         render_css |-> render_css.value]]

\* resolve_profile_render_bundle: the four reads and conversions in the
\* order of the statements, then the emptiness test
resolve_profile_render_bundle(bundle) ==
    LET profile_id == _require(bundle, "profileId")
        required_version == _require(bundle, "profileVersion")
        profile_version == ToInt(required_version.value)
        checksum == _require(bundle, "checksum")
        render_css == _require(bundle, "renderCss")
    IN  IF profile_id.raised # "" THEN [raised |-> profile_id.raised, value |-> None]
        ELSE IF required_version.raised # ""
        THEN [raised |-> required_version.raised, value |-> None]
        ELSE IF profile_version.raised # ""
        THEN [raised |-> profile_version.raised, value |-> None]
        ELSE IF checksum.raised # "" THEN [raised |-> checksum.raised, value |-> None]
        ELSE IF render_css.raised # "" THEN [raised |-> render_css.raised, value |-> None]
        ELSE IF Strip(render_css.value, Whitespace) = <<>>
        THEN [raised |-> EmptyRenderCss, value |-> None]
        ELSE [raised |-> "",
              value |-> [profile_id |-> profile_id.value,
                         profile_version |-> profile_version.value,
                         checksum |-> checksum.value,
                         render_css |-> render_css.value]]

\* render_kwargs_from_profile_bundle
render_kwargs_from_profile_bundle(bundle) ==
    LET resolved == resolve_profile_render_bundle(bundle)
    IN  IF resolved.raised # "" THEN resolved
        ELSE [raised |-> "",
              value |-> [theme_css |-> resolved.value.render_css,
                         embed_theme |-> TRUE,
                         theme_id |-> "default"]]

\* The values a profile service may send for profileVersion and renderCss
ProfileVersions == {[num |-> 4], [text |-> "v4"], [null |-> TRUE]}
RenderCssTexts ==
    {<<>>, <<" ">>, <<" ", "\t">>, <<".", "a">>, <<" ", ".", "a", " ">>}

\* Bundles with any of the four fields present or absent
ProfileBundles ==
    { id @@ version @@ sum @@ css :
        id \in {<<>>, [profileId |-> "runtime"]},
        version \in {<<>>} \cup {[profileVersion |-> v] : v \in ProfileVersions},
        sum \in {<<>>, [checksum |-> "abc123"]},
        css \in {<<>>} \cup {[renderCss |-> t] : t \in RenderCssTexts} }

InitProfile ==
    /\ Construct(MinimalGraph, PlainScenario)
    /\ arg \in ProfileBundles

\* resolve_profile_render_bundle(arg)
ResolveProfileRenderBundle ==
    \E r \in {resolve_profile_render_bundle(arg)} :
        /\ called' = <<"resolve_profile_render_bundle", arg>>
        /\ returned' = r.value
        /\ raised' = r.raised
        /\ UNCHANGED <<config_vars, collection_vars, icon_vars, arg>>

\* render_kwargs_from_profile_bundle(arg)
RenderKwargsFromProfileBundle ==
    \E r \in {render_kwargs_from_profile_bundle(arg)} :
        /\ called' = <<"render_kwargs_from_profile_bundle", arg>>
        /\ returned' = r.value
        /\ raised' = r.raised
        /\ UNCHANGED <<config_vars, collection_vars, icon_vars, arg>>

NextProfile == ResolveProfileRenderBundle \/ RenderKwargsFromProfileBundle

SpecProfile == InitProfile /\ [][NextProfile]_vars

-----------------------------------------
(* Properties: the persistent icon cache.                                  *)

\* The cache file of a name as a step finds it
FileBefore(n) == IF n \in DOMAIN disk[1] THEN Some(disk[1][n]) ELSE None

---------------------------------------------------------------------------
(* Properties: malformed input.                                            *)

\* Some node, port or edge record of the (sub)graph g, at any depth, has no
\* "id"
RECURSIVE LacksId(_)
LacksId(g) ==
    \/ \E i \in DOMAIN Get(g, "edges", <<>>) : "id" \notin DOMAIN g.edges[i]
    \/ \E i \in DOMAIN Get(g, "children", <<>>) :
          \/ "id" \notin DOMAIN g.children[i]
          \/ \E k \in DOMAIN Get(g.children[i], "ports", <<>>) :
                "id" \notin DOMAIN g.children[i].ports[k]
          \/ LacksId(g.children[i])

\* C12: a document in which a node, port or edge record at any depth has no
\* id makes the transform abort with an error, and no document is produced
\* from it; every other document of the generated ones (undeclared
\* geometry, dangling port references, edges without sections) is rendered
\* without an error.
C12_MissingIdAborts ==
    IF LacksId(graph)
    THEN called = <<"__init__">> /\ raised = KeyError /\ returned = None
    ELSE raised = ""

---------------------------------------------------------------------------
(* Properties: unresolved icons.                                           *)

\* No geometry is known for the icon name: the fetch failed, the text does
\* not parse, or it gives no positive width and height
Unresolved(icon_name) == Get(_icon_geom_cache, icon_name, None) = None

\* The group of the nodes layer drawn for the node with the given id
NodeGroupOf(root, id) ==
    LET layer == LayerOf(root, "nodes")
    IN  layer[CHOOSE i \in DOMAIN layer : layer[i].id = Some(id)]

\* The node's group holds the node's rectangle and its labels group and no
\* icon element
DrawnWithoutIcon(group) ==
    /\ group.elements[1].tag = "rect"
    /\ \E i \in DOMAIN group.elements :
          group.elements[i].tag = "g" /\ group.elements[i].class = "labels"
    /\ \A i \in DOMAIN group.elements :
          ~(group.elements[i].tag = "raw" /\ group.elements[i].class = "icon")

\* The glyph definitions of the rendered document
GlyphDefs(root) ==
    LET found == {i \in DOMAIN root.elements : root.elements[i].tag = "defs"}
        defs == root.elements[CHOOSE i \in found : TRUE].elements
    IN  {defs[i] : i \in {j \in DOMAIN defs : defs[j].tag = "raw"}}

\* The rendered document treats every unresolved icon as absent
UnresolvedIconsOmitted(root) ==
    \A i \in DOMAIN nodes :
        LET icon_name == IconNameOf(nodes[i])
        IN  (icon_name # None /\ Unresolved(icon_name[1])) =>
               /\ DrawnWithoutIcon(NodeGroupOf(root, nodes[i].id))
               /\ icon_name[1] \notin DOMAIN _icon_def_ids
               /\ \A d \in GlyphDefs(root) :
                     \E m \in DOMAIN _icon_def_ids :
                        ~Unresolved(m) /\ d.def_id = _icon_def_ids[m]

\* C13: whenever the icon of a node cannot be resolved (failed fetch,
\* unparseable text, width or height missing or not positive), to_svg_element
\* completes without an error, the node's group is drawn with its rectangle
\* and its labels but without an icon element, and the definitions hold no
\* glyph for that icon name.
C13_UnresolvedIconOmitted ==
    called = <<"to_svg_element">> =>
        /\ raised = ""
        /\ UnresolvedIconsOmitted(returned)

---------------------------------------------------------------------------
(* Properties: edges without geometry.                                     *)

\* The first source port or the first target port of the edge is not a port
\* of the document
Unresolvable(edge) ==
    \/ _port_center(port_lookup, FirstPort(edge, "sources")) = None
    \/ _port_center(port_lookup, FirstPort(edge, "targets")) = None

\* The groups of the edges layer drawn for the edge with the given id
EdgeGroupsOf(root, id) ==
    LET layer == LayerOf(root, "edges")
    IN  {layer[i] : i \in {j \in DOMAIN layer : layer[j].id = Some(id)}}

\* The records of self.labels the edge owns
LabelsOwnedBy(id) ==
    {labels[i] : i \in {j \in DOMAIN labels :
                          labels[j].owner_kind = "edge" /\ labels[j].owner = id}}

\* The group shows each junction point of the entry as a marker at the
\* point moved by the entry's offset
JunctionsDrawn(group, entry) ==
    \A k \in DOMAIN Get(entry.edge, "junctionPoints", <<>>) :
        \E i \in DOMAIN group.elements :
            /\ group.elements[i].tag = "circle"
            /\ group.elements[i].r = "2.5"
            /\ group.elements[i].cx = entry.edge.junctionPoints[k].x + entry.offset[1]
            /\ group.elements[i].cy = entry.edge.junctionPoints[k].y + entry.offset[2]

\* The group shows the text of each label the edge owns in a labels group
LabelsDrawn(group, id) ==
    \A lbl \in LabelsOwnedBy(id) :
        \E i \in DOMAIN group.elements :
            /\ group.elements[i].tag = "g"
            /\ group.elements[i].class = "labels"
            /\ \E t \in DOMAIN group.elements[i].elements :
                  /\ group.elements[i].elements[t].tag = "text"
                  /\ group.elements[i].elements[t].text = lbl.text

\* C14: rendering an edge without sections whose first source port or first
\* target port does not resolve raises nothing; no polyline is drawn for the
\* edge, and when it declares junction points or owns labels its group is
\* emitted and holds the junction markers and the labels.
C14_UnroutableEdgeStillAnnotated ==
    called = <<"to_svg_element">> =>
        /\ raised = ""
        /\ \A e \in DOMAIN edges :
              LET edge == edges[e].edge
                  annotated == Get(edge, "junctionPoints", <<>>) # <<>>
                               \/ LabelsOwnedBy(edge.id) # {}
              IN  (Get(edge, "sections", <<>>) = <<>> /\ Unresolvable(edge)) =>
                     /\ \A g \in EdgeGroupsOf(returned, edge.id) :
                           /\ \A i \in DOMAIN g.elements : g.elements[i].tag # "polyline"
                           /\ JunctionsDrawn(g, edges[e])
                           /\ LabelsDrawn(g, edge.id)
                     /\ annotated => EdgeGroupsOf(returned, edge.id) # {}

\* An edge without sections and with a dangling end, declared in a root
\* that is moved, was drawn as its junction marker and its labels group
C14_Witness ==
    /\ Rendered
    /\ \E e \in DOMAIN edges :
          /\ Get(edges[e].edge, "sections", <<>>) = <<>>
          /\ Unresolvable(edges[e].edge)
          /\ \E g \in EdgeGroupsOf(returned, edges[e].edge.id) :
                /\ g.elements[1].tag = "circle"
                /\ g.elements[1].cx = 100 + Get(graph, "x", 0)
                /\ Len(g.elements) = 2
                /\ g.elements[2].tag = "g"
                /\ Get(graph, "x", 0) > 0

---------------------------------------------------------------------------
(* Properties: edge thickness.                                             *)

\* The option values an edge declares, in either bag under any key
DeclaredValues(edge) == {edge[b][k] : <<b, k>> \in {<<b, k>> \in
    (DOMAIN edge) \X {EdgeThicknessKeys[i] : i \in DOMAIN EdgeThicknessKeys} :
        k \in DOMAIN edge[b]}}

\* C15: _edge_thickness returns 1 for a declared thickness that parses to a
\* number less than or equal to 0, the number itself for a positive one, and
\* None for a thickness that is absent or does not parse as a number.
C15_ThicknessClamped ==
    called = <<"_edge_thickness", arg>> =>
        \/ /\ DeclaredValues(arg) = {}
           /\ returned = None
        \/ \E v \in DeclaredValues(arg) :
              IF "num" \notin DOMAIN v THEN returned = None
              ELSE IF v.num <= 0 THEN returned = Some(1)
              ELSE returned = Some(v.num)

---------------------------------------------------------------------------
(* Properties: determinism of serializing.                                 *)

\* The memo tables of a renderer that has resolved and rendered nothing yet
FreshIconState ==
    [icon_cache |-> <<>>, icon_geom_cache |-> <<>>, icon_def_ids |-> <<>>,
     contacts |-> <<>>, disk |-> None, raised |-> ""]

\* The icon-resolution results this renderer has seen, as the answers of a
\* backend: the text it holds for a name, a failure for every other name
SameIconResults ==
    [n \in IconNames |->
        IF n \in DOMAIN _icon_cache /\ _icon_cache[n] # None
        THEN [ok |-> TRUE, data |-> _icon_cache[n][1]]
        ELSE [ok |-> FALSE, caught |-> TRUE]]

\* The text to_string gives on a second renderer built from the same
\* document and configuration, with empty memo tables, whose backend gives
\* the same icon-resolution results
TextOfFreshRenderer(default_css, pretty) ==
    to_string(FreshIconState, None, SameIconResults, default_css, pretty).text

\* to_string returned a text
Serialised == Len(called) = 2 /\ called[1] = "to_string" /\ raised = ""

\* to_string returned a text, and the call made now returns one again
SerialisedAgain ==
    /\ Serialised
    /\ Len(called') = 2 /\ called'[1] = "to_string" /\ raised' = ""
    /\ called'[2] = called[2]

\* C16: to_string is deterministic.  A call of to_string that follows
\* another on the same renderer returns the same text, and the text a
\* renderer returns, whatever its definitions cache, icon caches and icon
\* definition ids held before the call, is the text a second renderer with
\* empty memo tables returns for the same document, configuration and
\* icon-resolution results.
C16_SerializingDeterministic ==
    /\ [](Serialised =>
            \E default_css \in DefaultThemeResults :
                returned = TextOfFreshRenderer(default_css, called[2]))
    /\ [][SerialisedAgain => returned' = returned]_vars

\* A renderer whose memo tables were filled by an earlier render (both icon
\* names resolved, the colliding definition id disambiguated, definitions
\* cached) has serialized the document
C16_Witness ==
    /\ Serialised
    /\ called[2]
    /\ _defs_cache # None
    /\ ~Unresolved(IconA) /\ ~Unresolved(IconB)
    /\ _icon_def_ids[IconA] # _icon_def_ids[IconB]
    /\ \E i \in DOMAIN returned :
          "open" \in DOMAIN returned[i] /\ returned[i].open.tag = "raw"
          /\ Get(returned[i].open, "class", "") = "icon"

---------------------------------------------------------------------------
(* Properties: the input document is only read.                            *)

---------------------------------------------------------------------------
(* Properties: the profile adapter.                                        *)

RequiredFields == <<"profileId", "profileVersion", "checksum", "renderCss">>

ProfileCalled ==
    called[1] \in {"resolve_profile_render_bundle", "render_kwargs_from_profile_bundle"}

\* The required fields the bundle lacks
MissingFields(bundle) ==
    {RequiredFields[i] : i \in {j \in 1..4 : RequiredFields[j] \notin DOMAIN bundle}}

\* The text has no character other than whitespace
Blank(text) == \A i \in DOMAIN text : text[i] \in Whitespace

\* What each function returns for a bundle it accepts
Accepted(bundle) ==
    IF called[1] = "resolve_profile_render_bundle"
    THEN [profile_id |-> bundle.profileId,
          profile_version |-> bundle.profileVersion.num,
          checksum |-> bundle.checksum,
          render_css |-> bundle.renderCss]
    ELSE [theme_css |-> bundle.renderCss, embed_theme |-> TRUE, theme_id |-> "default"]

\* C18 as stated: both functions raise ValueError naming a missing field
\* when one of the four fields is missing, raise ValueError when renderCss
\* is empty or whitespace-only, and otherwise return: the resolver a bundle
\* carrying the four values, the adapter theme_css equal to renderCss,
\* embed_theme True and theme_id 'default'.
C18_ProfileBundleResolved ==
    ProfileCalled =>
        /\ MissingFields(arg) # {} =>
              \E f \in MissingFields(arg) : raised = MissingField(f)
        /\ MissingFields(arg) = {} /\ Blank(arg.renderCss) => raised = EmptyRenderCss
        /\ MissingFields(arg) = {} /\ ~Blank(arg.renderCss) =>
              /\ raised = ""
              /\ "num" \in DOMAIN arg.profileVersion
              /\ returned = Accepted(arg)

\* The profileVersion is there and int() rejects it
Unconvertible(bundle) ==
    "profileVersion" \in DOMAIN bundle /\ "num" \notin DOMAIN bundle.profileVersion

\* The fields read before the i-th are there, and the profileVersion, if
\* read before it, converts
ReadUpTo(bundle, i) ==
    /\ \A j \in 1..(i - 1) : RequiredFields[j] \in DOMAIN bundle
    /\ i > 2 => ~Unconvertible(bundle)

\* C18: both functions read profileId, profileVersion, checksum and
\* renderCss in this order and raise ValueError naming the first missing
\* one; a profileVersion int() rejects raises int()'s own ValueError (text)
\* or TypeError (None), which names no field, once profileId was found;
\* with all four read, an empty or whitespace-only renderCss raises
\* ValueError, and otherwise the resolver returns the four values
\* (profileVersion as an integer, renderCss unstripped) and the adapter
\* theme_css equal to renderCss, embed_theme True and theme_id 'default'.
C18_ProfileBundleResolvedInOrder ==
    ProfileCalled =>
        /\ \A i \in 1..4 :
              ReadUpTo(arg, i) /\ RequiredFields[i] \notin DOMAIN arg =>
                  raised = MissingField(RequiredFields[i])
        /\ ReadUpTo(arg, 2) /\ Unconvertible(arg) =>
              raised = IF "text" \in DOMAIN arg.profileVersion
                       THEN InvalidLiteral ELSE IntTypeError
        /\ ReadUpTo(arg, 5) /\ Blank(arg.renderCss) => raised = EmptyRenderCss
        /\ ReadUpTo(arg, 5) /\ ~Blank(arg.renderCss) =>
              raised = "" /\ returned = Accepted(arg)
        /\ raised # "" => returned = None

\* The adapter was given a complete bundle whose profileVersion is text
\* int() rejects, and int()'s error escaped; and renderCss with whitespace
\* around it is a case the functions accept
C18_Witness ==
    /\ called[1] = "render_kwargs_from_profile_bundle"
    /\ MissingFields(arg) = {}
    /\ ~Blank(arg.renderCss)
    /\ "text" \in DOMAIN arg.profileVersion
    /\ raised = InvalidLiteral

---------------------------------------------------------------------------
(* Properties: the order of the flat node sequence.                        *)

\* Path p comes before path q in the depth-first pre-order: p is a proper
\* prefix of q, or p turns to an earlier sibling where they part
LexBefore(p, q) ==
    \/ Len(p) < Len(q) /\ SubSeq(q, 1, Len(p)) = p
    \/ \E j \in 1..Len(p) :
          /\ j <= Len(q)
          /\ SubSeq(p, 1, j - 1) = SubSeq(q, 1, j - 1)
          /\ p[j] < q[j]

\* The k-th flat node was made from the node record at the path
Listed(k, path) == nodes[k].raw = NodeAt(graph, path)

\* C19: self.nodes is the depth-first pre-order listing of the node records
\* of the document: every node record at any depth is listed exactly once
\* and nothing else is, a container comes before all its descendants,
\* siblings (and everything below them) keep their input order; and a
\* render draws in g#nodes one group per flat node, in that order.
C19_NodesInPreOrder ==
    LET listed == Paths(graph) \ {<<>>}
    IN  /\ \A path \in listed :
              \E k \in DOMAIN nodes :
                  Listed(k, path) /\ \A l \in DOMAIN nodes \ {k} : ~Listed(l, path)
        /\ \A k \in DOMAIN nodes : \E path \in listed : Listed(k, path)
        /\ \A k, l \in DOMAIN nodes : \A p, q \in listed :
              k < l /\ Listed(k, p) /\ Listed(l, q) => LexBefore(p, q)
        /\ Rendered =>
              LET layer == LayerOf(returned, "nodes")
              IN  /\ Len(layer) = Len(nodes)
                  /\ \A k \in DOMAIN nodes :
                        layer[k].tag = "g" /\ layer[k].id = Some(nodes[k].id)

\* A render of a document with n1 holding n2 holding n3 and with n1's
\* sibling s1 listed and drew n1, n2, n3, s1
C19_Witness ==
    /\ Rendered
    /\ Len(nodes) = 4
    /\ Len(Get(graph, "children", <<>>)) = 2
    /\ [k \in DOMAIN nodes |-> nodes[k].id] = <<"n1", "n2", "n3", "s1">>
    /\ LayerOf(returned, "nodes")[4].id = Some("s1")
    /\ LayerOf(returned, "nodes")[2].id = Some("n2")

---------------------------------------------------------------------------
(* Properties: where the points of an edge are drawn.                      *)

\* The absolute origin of the subgraph at the path: the sum of the declared
\* (x, y) of the root, of its ancestors and of itself
OriginOf(path) ==
    <<DeclaredSum(graph, path, "x", 0), DeclaredSum(graph, path, "y", 0)>>

Moved(point, origin) == <<point.x + origin[1], point.y + origin[2]>>

\* The absolute centre of the first port listed under the key, nothing when
\* that port is not a port of the document
CentreOfFirst(edge, key) ==
    LET ids == Get(edge, key, <<>>)
    IN  IF ids = <<>> \/ ids[1] \notin DOMAIN port_lookup THEN <<>>
        ELSE LET port == port_lookup[ids[1]]
             IN  <<<<port.x + Half(port.width), port.y + Half(port.height)>>>>

\* The declared end of the section moved by the origin; the port centre
\* as it is when the section declares no such end
EndOrPort(edge, section, point_key, port_key, origin) ==
    IF point_key \in DOMAIN section THEN <<Moved(section[point_key], origin)>>
    ELSE CentreOfFirst(edge, port_key)

\* There is a circle of the radius at the point in the group
Marked(group, r, at) ==
    \E i \in DOMAIN group.elements :
        /\ group.elements[i].tag = "circle"
        /\ group.elements[i].r = r
        /\ <<group.elements[i].cx, group.elements[i].cy>> = at

\* C20: for every edge with a section, declared in the subgraph at any path,
\* a render draws the polyline through the declared start point, bend points
\* and end point, each moved by the absolute origin of that subgraph, marks
\* every bend point and every junction point at the point moved by that
\* origin, and puts the absolute centre of the first source (target) port,
\* not moved, where the section declares no start (end) point.
C20_EdgePointsAtSubgraphOrigin ==
    Rendered =>
        \A path \in Paths(graph) :
            LET declared == Get(NodeAt(graph, path), "edges", <<>>)
                origin == OriginOf(path)
            IN  \A e \in DOMAIN declared :
                    LET edge == declared[e]
                        section == edge.sections[1]
                        bends == Get(section, "bendPoints", <<>>)
                        junctions == Get(edge, "junctionPoints", <<>>)
                    IN  Get(edge, "sections", <<>>) # <<>> =>
                           \E g \in EdgeGroupsOf(returned, edge.id) :
                               /\ g.elements[1].tag = "polyline"
                               /\ g.elements[1].points =
                                     EndOrPort(edge, section, "startPoint", "sources", origin)
                                     \o [k \in DOMAIN bends |-> Moved(bends[k], origin)]
                                     \o EndOrPort(edge, section, "endPoint", "targets", origin)
                               /\ \A k \in DOMAIN bends :
                                     Marked(g, "2", Moved(bends[k], origin))
                               /\ \A k \in DOMAIN junctions :
                                     Marked(g, "2.5", Moved(junctions[k], origin))

\* A render drew the edge declared inside n1 at (20,20), whose section
\* declares the start (5,6) and no end: the polyline starts at (25,26) and
\* ends at the centre of port p, which is not the centre moved by (20,20)
C20_Witness ==
    /\ Rendered
    /\ Get(graph, "children", <<>>) # <<>>
    /\ OriginOf(<<1>>) = <<20, 20>>
    /\ "edges" \in DOMAIN NodeAt(graph, <<1>>)
    /\ \E g \in EdgeGroupsOf(returned, "e2") :
          LET points == g.elements[1].points
          IN  /\ "endPoint" \notin DOMAIN graph.children[1].edges[1].sections[1]
              /\ points[1] = <<25, 26>>
              /\ points[Len(points)] = <<port_lookup["p"].x + Half(port_lookup["p"].width),
                                         port_lookup["p"].y + Half(port_lookup["p"].height)>>

---------------------------------------------------------------------------
(* Properties: the fallback section.                                       *)

\* The first source port and the first target port of the edge are ports of
\* the document
Routable(edge) ==
    CentreOfFirst(edge, "sources") # <<>> /\ CentreOfFirst(edge, "targets") # <<>>

\* The elements of the group with the given tag
ElementsOf(group, tag) ==
    {i \in DOMAIN group.elements : group.elements[i].tag = tag}

\* C21: for an edge without sections whose first source port and first
\* target port both resolve, _fallback_section returns one section without
\* bend points whose startPoint and endPoint, moved by the offset it was
\* given, are the absolute centres of those two ports (so they equal the
\* centres for offset (0,0)); a render draws for the edge exactly one
\* polyline, from the first source port's centre to the first target port's
\* centre whatever the offset of the declaring graph, and no bend marker;
\* further ids in sources and targets play no part.
C21_FallbackSectionJoinsCentres ==
    /\ called[1] = "_fallback_section" /\ Routable(edges[1].edge) =>
          /\ returned # None
          /\ returned[1].bendPoints = <<>>
          /\ <<Moved(returned[1].startPoint, arg)>> = CentreOfFirst(edges[1].edge, "sources")
          /\ <<Moved(returned[1].endPoint, arg)>> = CentreOfFirst(edges[1].edge, "targets")
    /\ Rendered =>
          \A e \in DOMAIN edges :
              LET edge == edges[e].edge
              IN  Get(edge, "sections", <<>>) = <<>> /\ Routable(edge) =>
                     /\ Cardinality(EdgeGroupsOf(returned, edge.id)) = 1
                     /\ \A g \in EdgeGroupsOf(returned, edge.id) :
                           /\ Cardinality(ElementsOf(g, "polyline")) = 1
                           /\ g.elements[1].tag = "polyline"
                           /\ g.elements[1].points =
                                 CentreOfFirst(edge, "sources") \o CentreOfFirst(edge, "targets")
                           /\ ElementsOf(g, "circle") = {}

\* A render drew the root edge, declared at (20,20) without sections with
\* sources p, s1p and targets s1p, p, as one polyline from the centre of p
\* to the centre of s1p
C21_Witness ==
    /\ Rendered
    /\ edges[1].offset = <<20, 20>>
    /\ edges[1].edge.sources = <<"p", "s1p">>
    /\ edges[1].edge.targets = <<"s1p", "p">>
    /\ \E g \in EdgeGroupsOf(returned, "e1") :
          g.elements[1].points =
              <<<<port_lookup["p"].x + Half(port_lookup["p"].width),
                  port_lookup["p"].y + Half(port_lookup["p"].height)>>,
                <<port_lookup["s1p"].x + 2, port_lookup["s1p"].y + 2>>>>

---------------------------------------------------------------------------
(* Properties: port sides and the anchors of labels.                       *)

SideOrder == <<"WEST", "EAST", "NORTH", "SOUTH">>

\* Twice the distance of the port's centre from the boundary of its node on
\* the i-th side of the order, in absolute coordinates
Distance2(port, i) ==
    LET node == node_lookup[port.owner]
        cx2 == 2 * port.x + port.width
        cy2 == 2 * port.y + port.height
    IN  IF i = 1 THEN Abs(cx2 - 2 * node.x)
        ELSE IF i = 2 THEN Abs(cx2 - 2 * (node.x + node.width))
        ELSE IF i = 3 THEN Abs(cy2 - 2 * node.y)
        ELSE Abs(cy2 - 2 * (node.y + node.height))

\* The side of the port is a nearest side, and the first of the order among
\* the nearest
NearestSideFirst(port) ==
    \E i \in 1..4 :
        /\ port.side = SideOrder[i]
        /\ \A j \in 1..4 : Distance2(port, i) <= Distance2(port, j)
        /\ \A j \in 1..(i - 1) : Distance2(port, j) > Distance2(port, i)

ZeroSized(node) == node.width = 0 /\ node.height = 0

\* C22 as stated: the side of every port is the side of its node nearest to
\* the port's centre, the first of WEST, EAST, NORTH, SOUTH among equally
\* near ones, so that a port on a zero-sized node is WEST.
C22_PortSideNearest ==
    \A id \in DOMAIN port_lookup :
        /\ NearestSideFirst(port_lookup[id])
        /\ ZeroSized(node_lookup[port_lookup[id].owner]) => port_lookup[id].side = "WEST"

\* C22: the side of every port is the side of its node nearest to the
\* port's centre, the first of WEST, EAST, NORTH, SOUTH among equally near
\* ones; on a zero-sized node that is WEST when the port's centre is
\* horizontally no farther from the node's position than vertically, and
\* NORTH otherwise.
C22_PortSideNearestFirst ==
    \A id \in DOMAIN port_lookup :
        LET port == port_lookup[id]
        IN  /\ NearestSideFirst(port)
            /\ ZeroSized(node_lookup[port.owner]) =>
                  port.side = IF Distance2(port, 1) <= Distance2(port, 3)
                              THEN "WEST" ELSE "NORTH"

\* The port sits at (2,0) in a zero-sized node: its centre is 2 from the
\* left and right boundary and on the top and bottom one, and its side is
\* NORTH
C22_Witness ==
    /\ "p" \in DOMAIN port_lookup
    /\ ZeroSized(node_lookup["n1"])
    /\ port_lookup["p"].x - node_lookup["n1"].x = 2
    /\ port_lookup["p"].y = node_lookup["n1"].y
    /\ port_lookup["p"].width = 0 /\ port_lookup["p"].height = 0
    /\ port_lookup["p"].side = "NORTH"

\* C25: _label_text_anchor gives 'end' for an owner that is a known port on
\* the WEST side, 'start' for one on the EAST side, and 'middle' otherwise:
\* for a port on the NORTH or SOUTH side, for an owner that is no known
\* port, and for a label rendered as a node or edge label, also when its
\* owner is the id of a known port.
C25_AnchorBySide ==
    called[1] = "_label_text_anchor" =>
        LET owner == called[2]
            as_port == called[3] \notin {Some("node"), Some("edge")}
            side == IF owner # None /\ owner[1] \in DOMAIN port_lookup
                    THEN port_lookup[owner[1]].side ELSE "none"
        IN  returned = IF as_port /\ side = "WEST" THEN "end"
                       ELSE IF as_port /\ side = "EAST" THEN "start"
                       ELSE "middle"

\* The anchor was asked for a node label whose owner is the port p on the
\* WEST side, and it is 'middle'
C25_Witness ==
    /\ called = <<"_label_text_anchor", Some("p"), Some("node")>>
    /\ port_lookup["p"].side = "WEST"
    /\ returned = "middle"

---------------------------------------------------------------------------
(* Properties: the labels group of a node.                                 *)

\* The labels group of the group drawn for the node
LabelsGroupOf(root, id) ==
    LET group == NodeGroupOf(root, id)
    IN  group.elements[CHOOSE i \in DOMAIN group.elements :
                          group.elements[i].tag = "g" /\ group.elements[i].class = "labels"]

\* The collected labels of the node's own: node labels owned by its id
NodeLabelsOf(id) ==
    {i \in DOMAIN labels : labels[i].owner_kind = "node" /\ labels[i].owner = id}

\* C23: the labels group of a node holds the node's own labels, in their
\* order, when it has any (with or without text); otherwise one label with
\* the node id as text at the node's centre, unless a collected label with
\* non-empty text of any owner kind is owned by the node's id: then the
\* group is empty.
C23_NodeLabelsOrFallback ==
    Rendered =>
        \A k \in DOMAIN nodes :
            LET node == nodes[k]
                own == Get(node.raw, "labels", <<>>)
                drawn == LabelsGroupOf(returned, node.id).elements
                claimed == \E i \in DOMAIN labels :
                              labels[i].owner = node.id /\ labels[i].text # ""
            IN  /\ Len(own) = Cardinality(NodeLabelsOf(node.id))
                /\ own # <<>> =>
                      /\ Len(drawn) = Len(own)
                      /\ \A i \in DOMAIN own :
                            drawn[i].tag = "text" /\ drawn[i].text = own[i].text
                /\ own = <<>> /\ ~claimed =>
                      /\ Len(drawn) = 1
                      /\ drawn[1].tag = "text"
                      /\ drawn[1].text = node.id
                      /\ drawn[1].x = node.x + Half(node.width)
                      /\ drawn[1].y = node.y + Half(node.height)
                /\ own = <<>> /\ claimed => drawn = <<>>

\* Node a declares no label and its port, also named a, one label without
\* text and one with text: the labels group of a is empty, that of b holds
\* the text b
C23_Witness ==
    /\ Rendered
    /\ "labels" \notin DOMAIN nodes[1].raw
    /\ nodes[1].raw.ports[1].id = "a"
    /\ Len(Get(nodes[1].raw.ports[1], "labels", <<>>)) = 2
    /\ LabelsGroupOf(returned, "a").elements = <<>>
    /\ LabelsGroupOf(returned, "b").elements[1].text = "b"

---------------------------------------------------------------------------
(* Properties: the option bags.                                            *)

\* The values the bag of the item sets under one of the key aliases
ValuesSet(item, bag, keys) ==
    LET options == Get(item, bag, <<>>)
    IN  {options[keys[i]] : i \in {j \in DOMAIN keys : keys[j] \in DOMAIN options}}

\* C24: _option_value returns the value layoutOptions sets under one of the
\* aliases whenever it sets one, also when properties sets one too; the
\* value of properties only when layoutOptions sets none of the aliases;
\* and None when neither bag sets any.
C24_LayoutOptionsWin ==
    called[1] = "_option_value" =>
        LET layout == ValuesSet(arg.item, "layoutOptions", arg.keys)
            properties == ValuesSet(arg.item, "properties", arg.keys)
        IN  /\ layout # {} => returned # None /\ returned[1] \in layout
            /\ layout = {} /\ properties # {} =>
                  returned # None /\ returned[1] \in properties
            /\ layout = {} /\ properties = {} => returned = None

---------------------------------------------------------------------------
(* Properties: the baseline of a port label.                               *)

\* The label handed to _label_to_text is drawn as the label of a port the
\* renderer knows
AsPortLabel ==
    /\ called[3] \notin {Some("node"), Some("edge")}
    /\ arg.owner \in DOMAIN port_lookup

\* Twice the vertical centre of the port that owns the label
PortCentre2 == 2 * port_lookup[arg.owner].y + port_lookup[arg.owner].height

\* The baseline for a vertical position (doubled) relative to the port's
\* centre
BaselineFor(y2) ==
    IF ~AsPortLabel THEN "middle"
    ELSE IF y2 < PortCentre2 THEN "text-before-edge"
    ELSE IF y2 > PortCentre2 THEN "text-after-edge"
    ELSE "middle"

\* C26 as stated: the baseline of a label drawn as the label of a known port
\* is text-before-edge when the label's absolute y is above the port's
\* vertical centre, text-after-edge when it is below, middle when they
\* coincide; any other label gets middle.
C26_BaselineByPosition ==
    called[1] = "_label_to_text" => returned.dominant_baseline = BaselineFor(2 * arg.y)

\* C26: the baseline of a label drawn as the label of a known port is
\* text-before-edge when the label's vertical centre (its absolute y plus
\* half its height, where the text is placed) is above the port's vertical
\* centre, text-after-edge when it is below, middle when they coincide; any
\* other label gets middle.
C26_BaselineByCentre ==
    called[1] = "_label_to_text" =>
        /\ returned.dominant_baseline = BaselineFor(2 * arg.y + arg.height)
        /\ 2 * returned.y <= 2 * arg.y + arg.height
        /\ 2 * returned.y + 1 >= 2 * arg.y + arg.height

\* A port label of height 2 whose top is above the centre of its port and
\* whose centre is below it was drawn with text-after-edge
C26_Witness ==
    /\ called[1] = "_label_to_text"
    /\ called[3] = Some("port")
    /\ arg.owner = "p"
    /\ arg.height = 2
    /\ 2 * arg.y < PortCentre2
    /\ 2 * arg.y + arg.height > PortCentre2
    /\ returned.dominant_baseline = "text-after-edge"

---------------------------------------------------------------------------
(* Properties: the definitions block.                                      *)

\* The children of the defs element of the rendered document
DefsOf(root) ==
    root.elements[CHOOSE i \in DOMAIN root.elements : root.elements[i].tag = "defs"].elements

\* The nodes that reference the icon name
ReferencesTo(icon_name) ==
    {i \in DOMAIN nodes : IconNameOf(nodes[i]) = Some(icon_name)}

\* The first node that references the icon name
FirstReference(icon_name) ==
    CHOOSE i \in ReferencesTo(icon_name) : \A j \in ReferencesTo(icon_name) : i <= j

\* The places of the definitions block that define the glyph of the name
GlyphPlaces(defs, icon_name) ==
    {k \in DOMAIN defs : defs[k].tag = "raw" /\ defs[k].def_id = _icon_def_ids[icon_name]}

\* C27: the defs block of a rendered document is the markers arrow,
\* arrow-open, triangle-hollow followed by the glyph definitions: exactly
\* one for every icon name that some node references and whose geometry
\* resolved, none for any other name, in the order in which the names are
\* first referenced.
C27_DefsMarkersThenGlyphs ==
    Rendered =>
        LET defs == DefsOf(returned)
            resolved == {n \in DeclaredIcons : ~Unresolved(n)}
        IN  /\ Len(defs) = 3 + Cardinality(resolved)
            /\ [k \in 1..3 |-> defs[k]] = Markers
            /\ \A n \in resolved :
                  /\ Cardinality(GlyphPlaces(defs, n)) = 1
                  /\ GlyphPlaces(defs, n) \subseteq 4..Len(defs)
            /\ \A a, b \in resolved :
                  FirstReference(a) < FirstReference(b) =>
                      \A k \in GlyphPlaces(defs, a), l \in GlyphPlaces(defs, b) : k < l

\* Two nodes reference one icon and a later node another, both resolved:
\* the defs block holds the three markers and two glyphs
C27_Witness ==
    /\ Rendered
    /\ Cardinality(ReferencesTo(IconA)) = 2
    /\ ~Unresolved(IconA) /\ ~Unresolved(IconB)
    /\ Len(DefsOf(returned)) = 5
    /\ GlyphPlaces(DefsOf(returned), IconA) = {4}
    /\ GlyphPlaces(DefsOf(returned), IconB) = {5}

---------------------------------------------------------------------------
(* Properties: icon references and their definitions.                      *)

\* The icon references (<g class="icon"><use href=.../></g>) in the group
\* drawn for the node
IconReferences(root, id) ==
    LET group == NodeGroupOf(root, id)
    IN  {group.elements[i] :
            i \in {j \in DOMAIN group.elements :
                     group.elements[j].tag = "raw" /\ group.elements[j].class = "icon"}}

\* C30: in a rendered document a node group holds an icon reference exactly
\* when the node declares an icon whose geometry resolved, it holds one
\* then, and the id the reference points to is the id of exactly one glyph
\* definition of the defs block of that document.
C30_IconReferencesDefined ==
    Rendered =>
        \A k \in DOMAIN nodes :
            LET icon_name == IconNameOf(nodes[k])
                references == IconReferences(returned, nodes[k].id)
            IN  /\ references # {} <=> (icon_name # None /\ ~Unresolved(icon_name[1]))
                /\ Cardinality(references) <= 1
                /\ \A use \in references :
                      /\ use.href = _icon_def_ids[icon_name[1]]
                      /\ Cardinality({k2 \in DOMAIN DefsOf(returned) :
                                        /\ DefsOf(returned)[k2].tag = "raw"
                                        /\ DefsOf(returned)[k2].def_id = use.href}) = 1

\* The icon of n1 resolved and that of s1 did not: the group of n1 refers to
\* the one glyph of the defs block and the group of s1 holds no reference
C30_Witness ==
    /\ Rendered
    /\ ~Unresolved(IconA) /\ Unresolved(IconB)
    /\ IconReferences(returned, "s1") = {}
    /\ Len(DefsOf(returned)) = 4
    /\ \E use \in IconReferences(returned, "n1") : use.href = DefsOf(returned)[4].def_id

---------------------------------------------------------------------------
(* Properties: where a port label is placed.                               *)

\* The labels group of the group drawn for the port of the node
PortLabelsDrawn(root, node_id, port_id) ==
    LET node_group == NodeGroupOf(root, node_id)
        ports_group == node_group.elements[CHOOSE i \in DOMAIN node_group.elements :
                          /\ node_group.elements[i].tag = "g"
                          /\ node_group.elements[i].class = "ports"].elements
        port_group == ports_group[CHOOSE i \in DOMAIN ports_group :
                          ports_group[i].id = Some(port_id)]
    IN  port_group.elements[2].elements

\* C28: the record of a port label whose raw record supplies x and y is
\* placed at the port's absolute position plus (x, y); the record of one
\* that lacks x or lacks y at the port's absolute centre, whatever the one
\* coordinate it may supply; a render draws its text there.
C28_PortLabelPlacement ==
    \A id \in DOMAIN port_lookup :
        LET port == port_lookup[id]
            declared == Get(port.raw, "labels", <<>>)
            OfPort(lbl) == lbl.owner_kind = "port" /\ lbl.owner = id
            collected == SelectSeq(labels, OfPort)
        IN  /\ Len(collected) = Len(declared)
            /\ \A i \in DOMAIN collected :
                  LET raw == declared[i]
                      place == IF "x" \in DOMAIN raw /\ "y" \in DOMAIN raw
                               THEN <<port.x + raw.x, port.y + raw.y>>
                               ELSE <<port.x + Half(port.width), port.y + Half(port.height)>>
                  IN  /\ <<collected[i].x, collected[i].y>> = place
                      /\ Rendered =>
                            \E t \in DOMAIN PortLabelsDrawn(returned, port.owner, id) :
                                LET text == PortLabelsDrawn(returned, port.owner, id)[t]
                                IN  text.tag = "text" /\ <<text.x, text.y>> = place

\* The label of the port at (3,2) of size 4x2 in the node at (3,1) supplies
\* x = 6 and no y: it is placed, and drawn, at the port's centre (8,4)
C28_Witness ==
    /\ Rendered
    /\ "p" \in DOMAIN port_lookup
    /\ "x" \in DOMAIN port_lookup["p"].raw.labels[1]
    /\ port_lookup["p"].raw.labels[1].x = 6
    /\ "y" \notin DOMAIN port_lookup["p"].raw.labels[1]
    /\ <<port_lookup["p"].x, port_lookup["p"].y>> = <<6, 3>>
    /\ <<port_lookup["p"].width, port_lookup["p"].height>> = <<4, 2>>
    /\ <<labels[1].x, labels[1].y>> = <<8, 4>>
    /\ PortLabelsDrawn(returned, "n1", "p")[1].x = 8

---------------------------------------------------------------------------
(* Properties: label backgrounds.                                          *)

\* The labels group of the group drawn for the edge
EdgeLabelsDrawn(root, edge_id) ==
    LET group == Only(EdgeGroupsOf(root, edge_id))
    IN  group.elements[CHOOSE i \in DOMAIN group.elements :
                          /\ group.elements[i].tag = "g"
                          /\ group.elements[i].class = "labels"].elements

\* The label declares a positive width and a positive height
Backed(lbl) == lbl.width > 0 /\ lbl.height > 0

\* The place of the k-th label's text in a labels group: after the texts and
\* the background rectangles of the labels before it, and its own rectangle
TextPlace(lbls, k) == k + Cardinality({j \in 1..k : Backed(lbls[j])})

\* The elements are the labels' texts in order, each immediately preceded
\* by a background rectangle of the label's x, y, width and height exactly
\* when the label is backed, and nothing else
BackgroundsThenTexts(elements, lbls) ==
    /\ Len(elements) = TextPlace(lbls, Len(lbls))
    /\ \A k \in DOMAIN lbls :
          LET at == TextPlace(lbls, k)
          IN  /\ elements[at].tag = "text"
              /\ elements[at].text = lbls[k].text
              /\ IF Backed(lbls[k])
                 THEN /\ elements[at - 1].tag = "rect"
                      /\ elements[at - 1].class = "background"
                      /\ <<elements[at - 1].x, elements[at - 1].y>> = <<lbls[k].x, lbls[k].y>>
                      /\ <<elements[at - 1].width, elements[at - 1].height>>
                            = <<lbls[k].width, lbls[k].height>>
                 ELSE at = 1 \/ elements[at - 1].tag = "text"

\* The collected labels of the kind the owner has
LabelsRoutedTo(kind, id) ==
    LET Owned(lbl) == lbl.owner_kind = kind /\ lbl.owner = id
    IN  SelectSeq(labels, Owned)

\* C29: in a render, the labels group of every port and of every edge that
\* has labels holds, for each of its labels in order, the label's text
\* element, immediately preceded by a rectangle of class "background" with
\* the label's x, y, width and height if and only if the label's width and
\* height are both greater than 0; a label of zero or negative width or
\* height gets its text element alone.
C29_BackgroundIffPositiveSize ==
    Rendered =>
        /\ \A id \in DOMAIN port_lookup :
              LabelsRoutedTo("port", id) # <<>> =>
                 BackgroundsThenTexts(
                     PortLabelsDrawn(returned, port_lookup[id].owner, id),
                     LabelsRoutedTo("port", id))
        /\ \A i \in DOMAIN edges :
              LabelsRoutedTo("edge", edges[i].edge.id) # <<>> =>
                 BackgroundsThenTexts(EdgeLabelsDrawn(returned, edges[i].edge.id),
                                      LabelsRoutedTo("edge", edges[i].edge.id))

\* The port's first label is 4 wide and 0 high and its second 4 by 4, the
\* edge's label is 4 by 4: the port's labels group is text, rectangle, text,
\* the edge's is rectangle, text
C29_Witness ==
    /\ Rendered
    /\ Len(labels) = 3
    /\ <<labels[1].width, labels[1].height>> = <<4, 0>>
    /\ <<labels[2].width, labels[2].height>> = <<4, 4>>
    /\ <<labels[3].width, labels[3].height>> = <<4, 4>>
    /\ [i \in 1..3 |-> PortLabelsDrawn(returned, "a", "p")[i].tag]
          = <<"text", "rect", "text">>
    /\ [i \in 1..2 |-> EdgeLabelsDrawn(returned, "e")[i].tag] = <<"rect", "text">>
    /\ Len(PortLabelsDrawn(returned, "a", "p")) = 3

====
